---- MODULE Spec2Model ----
(***************************************************************************)
(* A model of the synthetic academic-graph generator                       *)
(* (src/generate_synthetic_dataset.py).  Each generation step of main()    *)
(* is a small state machine of its own, with its own specification; the    *)
(* inputs a step receives from earlier steps are drawn in its initial      *)
(* states from values those earlier steps can produce.                     *)
(***************************************************************************)
EXTENDS Integers, Sequences, FiniteSets, TLC

VARIABLES
    pc,                 \* position of the step being run
    cfg,                \* the configuration constants the run was started with
    now,                \* datetime.now(), as a calendar date
    terms,              \* generate_terms: the list being built / returned
    student,            \* generate_student_course_history: the loop's current student
    sidx,               \* ... its index in students
    student_terms,      \* ... the terms this student walks
    tpos,               \* ... how many of them have been walked
    taken_courses,      \* ... the per-student accumulator
    completed_courses,  \* ... COMPLETED records (a list)
    enrolled_courses,   \* ... ENROLLED_IN records (a list)
    last_term,          \* ... the records of the latest term iteration
    courses,            \* the course list a step works on
    prerequisites,      \* PREREQUISITE_FOR edges (a list)
    cidx,               \* generate_prerequisites: index of the course being processed
    students,           \* generate_students: the list being built / returned
    faculty,            \* generate_faculty: the list being built / returned
    degrees,            \* generate_degrees: the degrees (a list)
    requirement_groups, \* generate_degrees: the requirement groups (a list)
    work                \* the value a step drew first, or the payload computed, with its inputs

vars == <<pc, cfg, now, terms, student, sidx, student_terms, tpos, taken_courses,
          completed_courses, enrolled_courses, last_term, courses, prerequisites,
          cidx, students, faculty, degrees, requirement_groups, work>>

entityVars == <<students, faculty, degrees, requirement_groups>>

NoEntities ==
    /\ students = << >> /\ faculty = << >>
    /\ degrees = << >> /\ requirement_groups = << >>

histVars == <<student, sidx, student_terms, tpos, taken_courses,
              completed_courses, enrolled_courses, last_term>>

(***************************************************************************)
(* Bounds of the model.                                                    *)
(***************************************************************************)
Year0 == 2025            \* the year of the generation date
MaxHistoryYears == 1     \* HISTORY_YEARS ranges over 0..MaxHistoryYears
MaxTermsCap == 7         \* TERMS_TO_GENERATE ranges over 0..MaxTermsCap
NumPrereqCourses == 3    \* courses handed to generate_prerequisites
HistMaxHistoryYears == 0 \* HISTORY_YEARS of the history runs: 0..HistMaxHistoryYears
HistMaxTermsCap == 3     \* TERMS_TO_GENERATE of the history runs: 1..HistMaxTermsCap
MaxStudents == 2         \* NUM_STUDENTS of the cohort runs: 1..MaxStudents
MaxYearsAgo == 1         \* enrollment_years_ago ranges over 1..MaxYearsAgo (of 1..5)
MaxCourseLoad == 3       \* preferredCourseLoad ranges over 2..MaxCourseLoad (of 2..5)
EnrollStride == 120      \* spacing, in days, of the enrollment dates drawn

(***************************************************************************)
(* Configuration constants of the program.                                 *)
(***************************************************************************)
MAX_PREREQS_PER_COURSE == 3
TERMS_TO_GENERATE == 12
HISTORY_YEARS == 4

(***************************************************************************)
(* Calendar arithmetic (datetime.date).                                    *)
(***************************************************************************)
Date(y, m, d) == [y |-> y, m |-> m, d |-> d]

IsLeap(y) == (y % 4 = 0) /\ ((y % 100 # 0) \/ (y % 400 = 0))

DaysBeforeYear(y) ==
    LET p == y - 1 IN p * 365 + (p \div 4) - (p \div 100) + (p \div 400)

DaysBeforeMonthTable == <<0, 31, 59, 90, 120, 151, 181, 212, 243, 273, 304, 334>>

DaysBeforeMonth(y, m) ==
    DaysBeforeMonthTable[m] + (IF m > 2 /\ IsLeap(y) THEN 1 ELSE 0)

DaysInYear(y) == IF IsLeap(y) THEN 366 ELSE 365

\* date.toordinal()
ToOrdinal(dt) == DaysBeforeYear(dt.y) + DaysBeforeMonth(dt.y, dt.m) + dt.d

\* date.fromordinal(n), for the years around the generation date
FromOrdinal(n) ==
    LET y == CHOOSE yy \in (Year0 - 8)..(Year0 + 8) :
                 DaysBeforeYear(yy) < n /\ n <= DaysBeforeYear(yy) + DaysInYear(yy)
        r == n - DaysBeforeYear(y)
        m == CHOOSE mm \in 1..12 :
                 /\ DaysBeforeMonth(y, mm) < r
                 /\ (mm = 12 \/ r <= DaysBeforeMonth(y, mm + 1))
    IN Date(y, m, r - DaysBeforeMonth(y, m))

DateBefore(a, b) == ToOrdinal(a) < ToOrdinal(b)

(***************************************************************************)
(* get_term_by_date                                                        *)
(***************************************************************************)
get_term_by_date(date) ==
    IF 1 <= date.m /\ date.m <= 5 THEN "Spring" \o ToString(date.y)
    ELSE IF 6 <= date.m /\ date.m <= 7 THEN "Summer" \o ToString(date.y)
    ELSE "Fall" \o ToString(date.y)

(***************************************************************************)
(* generate_terms                                                          *)
(***************************************************************************)
\* term_info, in the dictionary's insertion order
term_info == <<
    [name |-> "Spring", start_month |-> 1, start_day |-> 25, end_month |-> 5,  end_day |-> 15],
    [name |-> "Summer", start_month |-> 6, start_day |-> 1,  end_month |-> 7,  end_day |-> 30],
    [name |-> "Fall",   start_month |-> 8, start_day |-> 25, end_month |-> 12, end_day |-> 15] >>

MakeTerm(year, info) ==
    [id        |-> info.name \o ToString(year),
     name      |-> info.name \o " " \o ToString(year),
     startDate |-> Date(year, info.start_month, info.start_day),
     endDate   |-> Date(year, info.end_month, info.end_day),
     type      |-> info.name]

\* The cap tested with > in place of >=.
RECURSIVE TermsOfYear_LateBreak(_, _, _, _)
TermsOfYear_LateBreak(year, k, cap, acc) ==
    IF k > Len(term_info) THEN acc
    ELSE IF Len(acc) > cap THEN acc
    ELSE TermsOfYear_LateBreak(year, k + 1, cap, Append(acc, MakeTerm(year, term_info[k])))

\* The inner loop over term_info for one year: `break` leaves this loop only.
RECURSIVE TermsOfYear(_, _, _, _)
TermsOfYear(year, k, cap, acc) ==
    IF k > Len(term_info) THEN acc
    ELSE IF Len(acc) >= cap THEN acc
    ELSE TermsOfYear(year, k + 1, cap, Append(acc, MakeTerm(year, term_info[k])))

\* The outer loop over range(start_year, end_year + 1).
RECURSIVE TermsLoop(_, _, _, _)
TermsLoop(year, end_year, cap, acc) ==
    IF year > end_year THEN acc
    ELSE TermsLoop(year + 1, end_year, cap, TermsOfYear(year, 1, cap, acc))

generate_terms(current_year, history_years, terms_to_generate) ==
    TermsLoop(current_year - history_years, current_year + 1, terms_to_generate, << >>)

(***************************************************************************)
(* random.sample(population, k): every list of k elements at distinct      *)
(* positions of the population, in any order.                              *)
(***************************************************************************)
SamplePositions(n, k) ==
    { p \in [1..k -> 1..n] : \A i, j \in 1..k : i # j => p[i] # p[j] }

\* A draw with replacement (random.choices): positions may repeat.
sample_WithReplacement(population, k) ==
    { [i \in 1..k |-> population[p[i]]] : p \in [1..k -> 1..Len(population)] }

sample(population, k) ==
    { [i \in 1..k |-> population[p[i]]] : p \in SamplePositions(Len(population), k) }

Min(a, b) == IF a <= b THEN a ELSE b
Max(a, b) == IF a >= b THEN a ELSE b

RECURSIVE Flatten(_)
Flatten(ss) == IF ss = << >> THEN << >> ELSE Head(ss) \o Flatten(Tail(ss))

Range(s) == { s[i] : i \in DOMAIN s }

(***************************************************************************)
(* generate_course_id                                                      *)
(***************************************************************************)
\* ''.join([d[0] for d in department.split()[:2]]).upper()
dept_prefix(department) ==
    CASE department = "Physics" -> "P"
      [] department = "Political Science" -> "PS"

RECURSIVE Repeat(_, _)
Repeat(str, n) == IF n <= 0 THEN "" ELSE str \o Repeat(str, n - 1)

\* letter is the value of random.choice(string.ascii_uppercase)
generate_course_id(department, level, letter) ==
    LET prefix == dept_prefix(department)
        padded == IF Len(prefix) < 4 THEN prefix \o Repeat(letter, 4 - Len(prefix)) ELSE prefix
    IN padded \o " " \o ToString(level)

(***************************************************************************)
(* generate_prerequisites                                                  *)
(***************************************************************************)
\* DEPARTMENTS: the model keeps two of the fifteen departments.
DEPARTMENTS == << "Physics", "Political Science" >>

\* COURSE_LEVELS' keys
COURSE_LEVELS == << 100, 200, 300, 400, 600, 700 >>

\* range(100, level + 1, 100): the course's own level is a candidate level too.
LowerLevels_Inclusive(level) ==
    [i \in 1..(level \div 100) |-> 100 * i]

\* range(100, level, 100)
LowerLevels(level) ==
    [i \in 1..((level - 1) \div 100) |-> 100 * i]

\* by_dept_level[(dept, l)]; a key that is absent contributes nothing
by_dept_level(cs, dept, l) ==
    SelectSeq(cs, LAMBDA c : c.department = dept /\ c.level = l)

\* random.randint(1, 3) for every level: the level-200 band draws like the 400 band.
NumPrereqChoices_OneBand(level, max_prereqs) ==
    1..3

\* random.randint(a, b) for the prerequisite count of a course of this level
NumPrereqChoices(level, max_prereqs) ==
    IF level <= 200 THEN 0..1
    ELSE IF level <= 300 THEN 1..2
    ELSE IF level <= 400 THEN 1..3
    ELSE 2..max_prereqs

SameDeptCandidates(cs, dept, level) ==
    Flatten([i \in 1..Len(LowerLevels(level)) |->
                by_dept_level(cs, dept, LowerLevels(level)[i])])

OtherDeptCandidates(cs, dept, level) ==
    Flatten([j \in 1..Len(DEPARTMENTS) |->
                IF DEPARTMENTS[j] # dept
                THEN SameDeptCandidates(cs, DEPARTMENTS[j], level)
                ELSE << >>])

\* potential_prereqs once the drawn count, capped by MAX_PREREQS_PER_COURSE, is known
potential_prereqs(cs, course, num_prereqs) ==
    LET same == SameDeptCandidates(cs, course.department, course.level)
    IN IF Len(same) < num_prereqs
       THEN same \o OtherDeptCandidates(cs, course.department, course.level)
       ELSE same

\* selected_prereqs: every list the course's iteration can select
selected_prereqs(cs, course, max_prereqs) ==
    IF course.level > 100
    THEN UNION { LET num == Min(drawn, max_prereqs)
                     pot == potential_prereqs(cs, course, num)
                 IN sample(pot, Min(num, Len(pot)))
                 : drawn \in NumPrereqChoices(course.level, max_prereqs) }
    ELSE { << >> }

\* strength and minGrade of one edge; of the four minimum grades the model
\* draws one
MinGrades == { "C" }

EdgePayloads ==
    { [strength |-> "Required", minGrade |-> g] : g \in MinGrades }
    \cup { [strength |-> "Recommended", minGrade |-> ""] }

PrereqEdge(prereq, course, payload) ==
    [source |-> prereq.id, target |-> course.id,
     strength |-> payload.strength, minGrade |-> payload.minGrade]

\* the edges one course's iteration can append, in the order appended
CourseEdges(cs, course, max_prereqs, payloads) ==
    UNION { { [k \in 1..Len(sel) |-> PrereqEdge(sel[k], course, pay[k])] :
                pay \in [1..Len(sel) -> payloads] }
            : sel \in selected_prereqs(cs, course, max_prereqs) }

(***************************************************************************)
(* The generation dates and configurations the model runs under.           *)
(***************************************************************************)
NowDates == { Date(Year0, 1, 10), Date(Year0, 3, 20), Date(Year0, 6, 15),
              Date(Year0, 8, 10), Date(Year0, 11, 4) }

\* The configuration the repository ships with.
DefaultConfig ==
    [HISTORY_YEARS |-> HISTORY_YEARS, TERMS_TO_GENERATE |-> TERMS_TO_GENERATE]

Configs ==
    [HISTORY_YEARS : 0..MaxHistoryYears, TERMS_TO_GENERATE : 0..MaxTermsCap]
        \cup {DefaultConfig}

Idle == << >>

(***************************************************************************)
(* Specification of the term generator.                                    *)
(***************************************************************************)
TermsInit ==
    /\ pc = "terms"
    /\ cfg \in Configs
    /\ now \in NowDates
    /\ terms = << >>
    /\ student = Idle /\ sidx = 0 /\ student_terms = << >> /\ tpos = 0
    /\ taken_courses = {} /\ completed_courses = << >> /\ enrolled_courses = << >>
    /\ last_term = << >>
    /\ courses = << >> /\ prerequisites = << >> /\ cidx = 0 /\ work = Idle /\ NoEntities

GenerateTerms ==
    /\ pc = "terms"
    /\ terms' = generate_terms(now.y, cfg.HISTORY_YEARS, cfg.TERMS_TO_GENERATE)
    /\ pc' = "terms_done"
    /\ UNCHANGED <<cfg, now, histVars, courses, prerequisites, cidx, work, entityVars>>

TermsNext == GenerateTerms

SpecTerms == TermsInit /\ [][TermsNext]_vars

(***************************************************************************)
(* Specification of the prerequisite builder.  The course list is an       *)
(* input: NumPrereqCourses courses of any department and level, with the   *)
(* identifiers generate_courses gives them (a "-<digit>" suffix on a       *)
(* repeated code).                                                         *)
(***************************************************************************)
PrereqLevels == { 100, 200, 300, 700 }

PrereqDepartments == { DEPARTMENTS[1], DEPARTMENTS[2] }

CourseOf(i, shape) ==
    LET base == generate_course_id(shape[i].department, shape[i].level, "X")
        repeated == \E j \in 1..(i - 1) :
                        generate_course_id(shape[j].department, shape[j].level, "X") = base
    IN [id         |-> IF repeated THEN base \o "-" \o ToString(i) ELSE base,
        department |-> shape[i].department,
        level      |-> shape[i].level]

CourseLists(n) ==
    { [i \in 1..n |-> CourseOf(i, shape)] :
        shape \in { sh \in [1..n -> [department : PrereqDepartments, level : PrereqLevels]] :
                      sh[1].department = DEPARTMENTS[1] } }

PrereqInit ==
    /\ pc = "prereq"
    /\ cfg = [MAX_PREREQS_PER_COURSE |-> MAX_PREREQS_PER_COURSE]
    /\ now = Date(Year0, 1, 1)
    /\ terms = << >>
    /\ student = Idle /\ sidx = 0 /\ student_terms = << >> /\ tpos = 0
    /\ taken_courses = {} /\ completed_courses = << >> /\ enrolled_courses = << >>
    /\ last_term = << >>
    /\ courses \in CourseLists(NumPrereqCourses)
    /\ prerequisites = << >> /\ cidx = 1 /\ work = Idle /\ NoEntities

\* One iteration of `for course in courses`.
PrereqCourse ==
    /\ pc = "prereq"
    /\ cidx <= Len(courses)
    /\ \E edges \in CourseEdges(courses, courses[cidx], cfg.MAX_PREREQS_PER_COURSE, EdgePayloads) :
          prerequisites' = prerequisites \o edges
    /\ cidx' = cidx + 1
    /\ UNCHANGED <<pc, cfg, now, terms, histVars, courses, work, entityVars>>

PrereqReturn ==
    /\ pc = "prereq"
    /\ cidx > Len(courses)
    /\ pc' = "prereq_done"
    /\ UNCHANGED <<cfg, now, terms, histVars, courses, prerequisites, cidx, work, entityVars>>

PrereqNext == PrereqCourse \/ PrereqReturn

SpecPrereq == PrereqInit /\ [][PrereqNext]_vars

CourseById(cs, id) == CHOOSE c \in Range(cs) : c.id = id

\* C2: every PREREQUISITE_FOR edge runs from a strictly lower level to a higher
\* one, whichever pool its source came from, so no course is its own
\* prerequisite and no chain of edges returns to its start.
RECURSIVE ReachableFrom(_, _, _)
ReachableFrom(edges, frontier, n) ==
    IF n = 0 THEN frontier
    ELSE ReachableFrom(edges,
                       frontier \cup { e.target : e \in { x \in edges : x.source \in frontier } },
                       n - 1)

PrereqAcyclic ==
    LET edges == Range(prerequisites)
    IN /\ \A e \in edges :
            CourseById(courses, e.source).level < CourseById(courses, e.target).level
       /\ \A e \in edges : e.source # e.target
       /\ \A e \in edges :
            e.source \notin ReachableFrom(edges, {e.target}, Len(courses))

PrereqAcyclicWitness ==
    /\ pc = "prereq_done"
    /\ \E e \in Range(prerequisites) :
          CourseById(courses, e.source).department # CourseById(courses, e.target).department
    /\ \E e \in Range(prerequisites) :
          CourseById(courses, e.source).department = CourseById(courses, e.target).department

(***************************************************************************)
(* generate_date and the part of generate_students the history reads       *)
(***************************************************************************)
\* start_date + timedelta(days=random_days)
generate_date(year_min, year_max, random_days) ==
    FromOrdinal(ToOrdinal(Date(year_min, 1, 1)) + random_days)

\* days_between_dates
DaysBetween(year_min, year_max) ==
    ToOrdinal(Date(year_max, 12, 31)) - ToOrdinal(Date(year_min, 1, 1))

\* random.randrange(days_between_dates): of its values the model draws the
\* first, the last and those that land on a multiple of EnrollStride
RandRangeDays(year_min, year_max) ==
    LET first == ToOrdinal(Date(year_min, 1, 1))
        days == DaysBetween(year_min, year_max)
    IN { 0, days - 1 } \cup
       { k * EnrollStride - first :
           k \in ((first + EnrollStride - 1) \div EnrollStride)..((first + days - 1) \div EnrollStride) }

\* enrollment_date = generate_date(current_year - enrollment_years_ago, current_year)
EnrollmentDates(current_year) ==
    UNION { { generate_date(current_year - ago, current_year, r) :
                r \in RandRangeDays(current_year - ago, current_year) }
            : ago \in 1..MaxYearsAgo }

\* random.randint(2, 5), up to MaxCourseLoad
CourseLoads == 2..MaxCourseLoad

StudentId(i) == "AB1000" \o ToString(i)

Students(i, current_year) ==
    [id : {StudentId(i)},
     enrollmentDate : EnrollmentDates(current_year),
     preferredCourseLoad : CourseLoads]

(***************************************************************************)
(* generate_student_course_history                                         *)
(***************************************************************************)
\* The graph keyed by the source of each edge instead of its target.
prereq_graph_BySource(edges, course_id) ==
    LET out == SelectSeq(edges, LAMBDA e : e.source = course_id)
    IN [i \in 1..Len(out) |-> out[i].target]

\* Only the edges of strength "Required" count as prerequisites.
prereq_graph_RequiredOnly(edges, course_id) ==
    LET into == SelectSeq(edges, LAMBDA e : e.target = course_id /\ e.strength = "Required")
    IN [i \in 1..Len(into) |-> into[i].source]

\* prereq_graph.get(course_id, [])
prereq_graph(edges, course_id) ==
    LET into == SelectSeq(edges, LAMBDA e : e.target = course_id)
    IN [i \in 1..Len(into) |-> into[i].source]

\* (now - enrollment_date).days
DaysSince(today, enrollment_date) == ToOrdinal(today) - ToOrdinal(enrollment_date)

terms_enrolled(today, enrollment_date, terms_to_generate) ==
    LET t == Min(terms_to_generate, DaysSince(today, enrollment_date) \div 120)
    IN IF t = 0 THEN 1 ELSE t

\* range(max(0, len(terms) - terms_enrolled), len(terms)), as 1-based positions
enrolled_term_indices(n_terms, n_enrolled) ==
    LET first == Max(0, n_terms - n_enrolled)
    IN [i \in 1..Max(0, n_terms - first) |-> first + i]

StudentTerms(all_terms, today, enrollment_date, terms_to_generate) ==
    LET idx == enrolled_term_indices(Len(all_terms),
                                     terms_enrolled(today, enrollment_date, terms_to_generate))
    IN [i \in 1..Len(idx) |-> all_terms[idx[i]]]

potential_courses(cs, term_type, taken) ==
    SelectSeq(cs, LAMBDA c : term_type \in c.termAvailability /\ c.id \notin taken)

PrereqsMet(edges, course, taken) ==
    \A p \in Range(prereq_graph(edges, course.id)) : p \in taken

\* A fallback that takes every candidate, whatever its prerequisites.
fallback_courses_AnyCandidate(potential, edges) ==
    potential

\* `[c for c in potential_courses if not prereq_graph.get(c["id"], [])]`
fallback_courses(potential, edges) ==
    SelectSeq(potential, LAMBDA c : prereq_graph(edges, c.id) = << >>)

valid_courses(cs, edges, term_type, taken) ==
    LET potential == potential_courses(cs, term_type, taken)
        filtered == SelectSeq(potential, LAMBDA c : PrereqsMet(edges, c, taken))
    IN IF filtered = << >>
       THEN fallback_courses(potential, edges)
       ELSE filtered

\* A comparison of the term's display name, not its id, with current_term.
IsCurrentTerm_ByName(term, today) == term.name = get_term_by_date(today)

\* `if term["id"] == current_term`
IsCurrentTerm(term, today) == term.id = get_term_by_date(today)

\* An accumulator kept across students instead of being created per student.
InitialTaken_Shared(previous) == previous

\* `taken_courses = set()` at the start of each student's iteration
InitialTaken(previous) == {}

CompletedRecord(st, course, term) ==
    [studentId |-> st.id, courseId |-> course.id, term |-> term.id]

EnrolledRecord(st, course) ==
    [studentId |-> st.id, courseId |-> course.id]

(***************************************************************************)
(* Specification of the enrollment history simulator.  Terms come from     *)
(* generate_terms, prerequisites from generate_prerequisites over a        *)
(* three-course catalogue, students from generate_students.                *)
(***************************************************************************)
\* Runs with one student range over every configuration and generation date of
\* the model; runs with a cohort of students keep the two-term window that
\* starts at the term of the generation date.
HistConfigs ==
    [HISTORY_YEARS : 0..HistMaxHistoryYears,
     TERMS_TO_GENERATE : 1..HistMaxTermsCap,
     NUM_STUDENTS : {1},
     MAX_PREREQS_PER_COURSE : {MAX_PREREQS_PER_COURSE}]
    \cup
    [HISTORY_YEARS : {0},
     TERMS_TO_GENERATE : {2},
     NUM_STUDENTS : 2..MaxStudents,
     MAX_PREREQS_PER_COURSE : {MAX_PREREQS_PER_COURSE}]

HistNowDates(c) ==
    IF c.NUM_STUDENTS = 1
    THEN { Date(Year0, 3, 20), Date(Year0, 5, 20), Date(Year0, 6, 15), Date(Year0, 11, 4) }
    ELSE { Date(Year0, 3, 20) }

HistShape ==
    << [department |-> "Physics", level |-> 100],
       [department |-> "Physics", level |-> 200],
       [department |-> "Physics", level |-> 300] >>

\* termAvailability: Fall and Spring, and Summer for the courses drawn
HistCourseLists ==
    { [i \in 1..Len(HistShape) |->
          [id |-> CourseOf(i, HistShape).id,
           department |-> HistShape[i].department,
           level |-> HistShape[i].level,
           termAvailability |-> IF i \in summer THEN {"Fall", "Spring", "Summer"}
                                ELSE {"Fall", "Spring"}]]
      : summer \in SUBSET (1..Len(HistShape)) }

\* every list generate_prerequisites can return for the course list
RECURSIVE PrerequisiteLists(_, _, _, _)
PrerequisiteLists(cs, i, max_prereqs, payloads) ==
    IF i > Len(cs) THEN { << >> }
    ELSE { edges \o rest :
              edges \in CourseEdges(cs, cs[i], max_prereqs, payloads),
              rest \in PrerequisiteLists(cs, i + 1, max_prereqs, payloads) }

HistInit ==
    /\ pc = "history"
    /\ cfg \in HistConfigs
    /\ now \in HistNowDates(cfg)
    /\ terms = generate_terms(now.y, cfg.HISTORY_YEARS, cfg.TERMS_TO_GENERATE)
    /\ courses \in HistCourseLists
    /\ prerequisites \in PrerequisiteLists(courses, 1, cfg.MAX_PREREQS_PER_COURSE,
                                           { [strength |-> "Required", minGrade |-> "C"] })
    /\ student = Idle /\ sidx = 0 /\ student_terms = << >> /\ tpos = 0
    /\ taken_courses = {} /\ completed_courses = << >> /\ enrolled_courses = << >>
    /\ last_term = Idle
    /\ cidx = 0 /\ work = Idle /\ NoEntities

\* `for student in students:` up to the term loop
HistStudent ==
    /\ pc = "history"
    /\ tpos = Len(student_terms)
    /\ sidx < cfg.NUM_STUDENTS
    /\ \E st \in Students(sidx + 1, now.y) :
          /\ student' = st
          /\ student_terms' = StudentTerms(terms, now, st.enrollmentDate, cfg.TERMS_TO_GENERATE)
    /\ sidx' = sidx + 1
    /\ tpos' = 0
    /\ taken_courses' = InitialTaken(taken_courses)
    /\ last_term' = Idle
    /\ UNCHANGED <<pc, cfg, now, terms, completed_courses, enrolled_courses,
                   courses, prerequisites, cidx, work, entityVars>>

\* one iteration of `for term_idx, term in enumerate(student_terms):`
HistTerm ==
    /\ pc = "history"
    /\ tpos < Len(student_terms)
    /\ LET term == student_terms[tpos + 1]
           valid == valid_courses(courses, prerequisites, term.type, taken_courses)
       IN \E num_courses \in 1..student.preferredCourseLoad :
          \E term_courses \in sample(valid, Min(num_courses, Len(valid))) :
             LET n == Len(term_courses) IN
             /\ taken_courses' = taken_courses \cup { term_courses[i].id : i \in 1..n }
             /\ IF IsCurrentTerm(term, now)
                THEN /\ enrolled_courses' = enrolled_courses \o
                            [i \in 1..n |-> EnrolledRecord(student, term_courses[i])]
                     /\ UNCHANGED completed_courses
                ELSE /\ completed_courses' = completed_courses \o
                            [i \in 1..n |-> CompletedRecord(student, term_courses[i], term)]
                     /\ UNCHANGED enrolled_courses
             /\ last_term' = [term |-> term,
                              valid |-> { valid[i].id : i \in 1..Len(valid) },
                              selected |-> [i \in 1..n |-> term_courses[i].id]]
    /\ tpos' = tpos + 1
    /\ UNCHANGED <<pc, cfg, now, terms, student, sidx, student_terms,
                   courses, prerequisites, cidx, work, entityVars>>

HistReturn ==
    /\ pc = "history"
    /\ tpos = Len(student_terms)
    /\ sidx = cfg.NUM_STUDENTS
    /\ pc' = "history_done"
    /\ UNCHANGED <<cfg, now, terms, histVars, courses, prerequisites, cidx, work, entityVars>>

HistNext == HistStudent \/ HistTerm \/ HistReturn

SpecHistory == HistInit /\ [][HistNext]_vars

(***************************************************************************)
(* Properties of the term generator.                                       *)
(***************************************************************************)
\* C10: generate_terms returns at most TERMS_TO_GENERATE terms, each starting
\* before it ends, and each ending strictly before the next one starts.
TermsChronological ==
    pc = "terms_done" =>
        /\ Len(terms) <= cfg.TERMS_TO_GENERATE
        /\ \A i \in 1..Len(terms) : DateBefore(terms[i].startDate, terms[i].endDate)
        /\ \A i \in 1..(Len(terms) - 1) : DateBefore(terms[i].endDate, terms[i + 1].startDate)

\* the cap cut the list inside a year, after several terms
TermsChronologicalWitness ==
    /\ pc = "terms_done"
    /\ Len(terms) = cfg.TERMS_TO_GENERATE
    /\ Len(terms) >= 4
    /\ terms[Len(terms)].type = "Spring"

(***************************************************************************)
(* Properties of the enrollment history simulator.                         *)
(***************************************************************************)
TermIndex(term_id) == CHOOSE k \in 1..Len(terms) : terms[k].id = term_id

CountOf(records, student_id, course_id) ==
    Cardinality({ i \in 1..Len(records) :
                    records[i].studentId = student_id /\ records[i].courseId = course_id })

\* course ids recorded for a student, COMPLETED or ENROLLED_IN
RecordedCourses(student_id) ==
    { r.courseId : r \in { x \in Range(completed_courses) : x.studentId = student_id } }
    \cup { r.courseId : r \in { x \in Range(enrolled_courses) : x.studentId = student_id } }

\* C1: every prerequisite of a COMPLETED course has a COMPLETED record of the
\* same student in a strictly earlier term; ENROLLED_IN records do not count.
CausalConsistency ==
    \A i \in 1..Len(completed_courses) :
        LET r == completed_courses[i] IN
        \A p \in Range(prereq_graph(prerequisites, r.courseId)) :
            \E j \in 1..Len(completed_courses) :
                /\ completed_courses[j].studentId = r.studentId
                /\ completed_courses[j].courseId = p
                /\ TermIndex(completed_courses[j].term) < TermIndex(r.term)

\* the term whose start and end dates enclose the generation date
TermContains(term, today) ==
    /\ ToOrdinal(term.startDate) <= ToOrdinal(today)
    /\ ToOrdinal(today) <= ToOrdinal(term.endDate)

\* what one term iteration recorded, given which term counts as current
RecordsOfTerm(is_current) ==
    \A k \in 1..Len(last_term.selected) :
        LET c == last_term.selected[k] IN
        /\ CountOf(enrolled_courses, student.id, c) + CountOf(completed_courses, student.id, c) = 1
        /\ CountOf(enrolled_courses, student.id, c) = (IF is_current THEN 1 ELSE 0)
        /\ ~is_current =>
              \E i \in 1..Len(completed_courses) :
                  completed_courses[i] = [studentId |-> student.id, courseId |-> c,
                                          term |-> last_term.term.id]

\* C3 as stated: a selected course gets exactly one record, ENROLLED_IN iff the
\* term is the one containing the generation date, COMPLETED with the term's id
\* otherwise; no COMPLETED record carries the id of the term containing the date.
EnrolledIffTermContainsNow ==
    /\ last_term # Idle => RecordsOfTerm(TermContains(last_term.term, now))
    /\ \A i \in 1..Len(completed_courses) :
          ~TermContains(terms[TermIndex(completed_courses[i].term)], now)

\* C3 amended: the current term is the one get_term_by_date names for the
\* generation date from its month alone.
EnrolledIffCurrentTermId ==
    /\ last_term # Idle => RecordsOfTerm(last_term.term.id = get_term_by_date(now))
    /\ \A i \in 1..Len(completed_courses) :
          completed_courses[i].term # get_term_by_date(now)

\* a current-term iteration recorded ENROLLED_IN after an earlier term recorded COMPLETED
EnrolledIffCurrentTermIdWitness ==
    /\ last_term # Idle
    /\ last_term.term.id = get_term_by_date(now)
    /\ Len(last_term.selected) >= 1
    /\ \E i \in 1..Len(completed_courses) : completed_courses[i].studentId = student.id

\* C4: ENROLLED_IN records arise only in the last generated term, and no student
\* has a COMPLETED record in a term after the one they are enrolled in.
EnrolledOnlyInLastTerm ==
    /\ (last_term # Idle /\ \E k \in 1..Len(last_term.selected) :
            CountOf(enrolled_courses, student.id, last_term.selected[k]) > 0)
        => last_term.term.id = terms[Len(terms)].id
    /\ \A i \in 1..Len(completed_courses) :
          (\E j \in 1..Len(enrolled_courses) :
              enrolled_courses[j].studentId = completed_courses[i].studentId)
          => TermIndex(completed_courses[i].term) < TermIndex(get_term_by_date(now))

\* C5: the accumulator is empty when a student's walk starts and always equals
\* the set of courses recorded for that student; no (student, course) pair is
\* recorded twice; the pool a term offered was computed from the student's own
\* earlier records only.
TakenMatchesOwnRecords ==
    (pc = "history" /\ sidx >= 1) =>
        /\ tpos = 0 => taken_courses = {}
        /\ taken_courses = RecordedCourses(student.id)
        /\ \A i \in 1..Len(completed_courses) :
              CountOf(completed_courses, completed_courses[i].studentId,
                      completed_courses[i].courseId)
              + CountOf(enrolled_courses, completed_courses[i].studentId,
                        completed_courses[i].courseId) = 1
        /\ \A i \in 1..Len(enrolled_courses) :
              CountOf(completed_courses, enrolled_courses[i].studentId,
                      enrolled_courses[i].courseId)
              + CountOf(enrolled_courses, enrolled_courses[i].studentId,
                        enrolled_courses[i].courseId) = 1
        /\ last_term # Idle =>
              LET before == RecordedCourses(student.id) \ Range(last_term.selected)
                  pool == valid_courses(courses, prerequisites, last_term.term.type, before)
              IN last_term.valid = { pool[i].id : i \in 1..Len(pool) }

\* a later student selects a course that an earlier student already has on record
TakenMatchesOwnRecordsWitness ==
    /\ pc = "history"
    /\ sidx >= 2
    /\ last_term # Idle
    /\ \E k \in 1..Len(last_term.selected) :
          \E i \in 1..Len(completed_courses) :
              /\ completed_courses[i].studentId # student.id
              /\ completed_courses[i].courseId = last_term.selected[k]
    /\ \E j \in 1..Len(enrolled_courses) : enrolled_courses[j].studentId = student.id

\* C9: every student walks at least one and at most TERMS_TO_GENERATE terms,
\* and they are the trailing terms of the term list, in order.
ActiveTermClamp ==
    (pc = "history" /\ sidx >= 1) =>
        LET n == Len(student_terms) IN
        /\ 1 <= n
        /\ n <= cfg.TERMS_TO_GENERATE
        /\ n <= Len(terms)
        /\ \A i \in 1..n : student_terms[i] = terms[Len(terms) - n + i]

(***************************************************************************)
(* generate_degrees                                                        *)
(***************************************************************************)
MaxDegrees == 2             \* NUM_DEGREES of the identifier runs: 0..MaxDegrees
NumDegreeCourses == 2       \* the course lists handed over have 0..NumDegreeCourses courses
MaxRequirementGroups == 3   \* num_requirement_groups ranges over 3..MaxRequirementGroups (of 3..7)

\* degree_type and the prefix derived from it
degree_types ==
    { [type |-> "Bachelor of Science", prefix |-> "BS"],
      [type |-> "Bachelor of Arts",    prefix |-> "BA"],
      [type |-> "Master of Science",   prefix |-> "MS"],
      [type |-> "Master of Arts",      prefix |-> "MA"] }

\* dept.replace(' ', '')
dept_nospace(dept) ==
    CASE dept = "Physics" -> "Physics"
      [] dept = "Political Science" -> "PoliticalScience"

\* f"{prefix}-{dept.replace(' ', '')}-{i+1}"
degree_id(prefix, dept, i) ==
    prefix \o "-" \o dept_nospace(dept) \o "-" \o ToString(i + 1)

\* f"REQ-CORE-{degree_id}"
core_req_id(deg_id) == "REQ-CORE-" \o deg_id

\* req_type and req_type.upper()
req_types ==
    { [type |-> "Elective",       upper |-> "ELECTIVE"],
      [type |-> "Concentration",  upper |-> "CONCENTRATION"],
      [type |-> "Specialization", upper |-> "SPECIALIZATION"],
      [type |-> "Distribution",   upper |-> "DISTRIBUTION"] }

\* the degree types and requirement types the model draws
DegreeTypeDraws == { dt \in degree_types : dt.prefix \in { "BS", "MA" } }

ReqTypeDraws == { rt \in req_types : rt.type \in { "Elective", "Distribution" } }

\* f"REQ-{req_type.upper()}-{j+1}-{degree_id}"
req_id(req_type, j, deg_id) ==
    "REQ-" \o req_type.upper \o "-" \o ToString(j + 1) \o "-" \o deg_id

\* dept_courses[dept], a defaultdict(list) filled in course order
dept_courses(cs, dept) == SelectSeq(cs, LAMBDA c : c.department = dept)

\* the courses appended for related_depts[k..]: a sample of at most 5 of each
\* related department other than the degree's own
RECURSIVE RelatedExtensions(_, _, _, _)
RelatedExtensions(cs, dept, related_depts, k) ==
    IF k > Len(related_depts) THEN { << >> }
    ELSE LET pool == dept_courses(cs, related_depts[k])
             own == IF related_depts[k] # dept
                    THEN sample(pool, Min(5, Len(pool)))
                    ELSE { << >> }
         IN { a \o rest : a \in own,
                          rest \in RelatedExtensions(cs, dept, related_depts, k + 1) }

available_courses(cs, dept) ==
    UNION { { dept_courses(cs, dept) \o ext :
                ext \in RelatedExtensions(cs, dept, related_depts, 1) } :
            related_depts \in sample(DEPARTMENTS, Min(3, Len(DEPARTMENTS))) }

\* sorted(available_courses, key=lambda x: x["level"]): a stable sort
RECURSIVE InsertByLevel(_, _)
InsertByLevel(sorted, c) ==
    IF sorted = << >> THEN << c >>
    ELSE IF sorted[Len(sorted)].level <= c.level THEN Append(sorted, c)
    ELSE Append(InsertByLevel(SubSeq(sorted, 1, Len(sorted) - 1), c), sorted[Len(sorted)])

RECURSIVE sorted_by_level(_)
sorted_by_level(cs) ==
    IF cs = << >> THEN << >>
    ELSE InsertByLevel(sorted_by_level(SubSeq(cs, 1, Len(cs) - 1)), cs[Len(cs)])

RECURSIVE PickAt(_, _, _)
PickAt(seq, picked, k) ==
    IF k > Len(seq) THEN << >>
    ELSE (IF k \in picked THEN << seq[k] >> ELSE << >>) \o PickAt(seq, picked, k + 1)

\* the walk over sorted_by_level: a course is appended when random.random() is
\* below its level weight (every weight is strictly between 0 and 1) and the
\* list is still shorter than target_core_courses
core_course_lists(available) ==
    LET target_core_courses == Min(20, Len(available) \div 2)
        ordered == sorted_by_level(available)
    IN { PickAt(ordered, picked, 1) :
            picked \in { q \in SUBSET (1..Len(ordered)) :
                           Cardinality(q) <= target_core_courses } }

core_requirement(deg_id, core_courses) ==
    [id             |-> core_req_id(deg_id),
     degreeId       |-> deg_id,
     minimumCourses |-> Len(core_courses),
     courses        |-> [k \in 1..Len(core_courses) |-> core_courses[k].id]]

\* The groups draw from every available course, the core ones included.
remaining_courses_All(available, core_courses) ==
    available

\* [c for c in available_courses if c not in core_courses]
remaining_courses(available, core_courses) ==
    SelectSeq(available, LAMBDA c : c \notin Range(core_courses))

\* random.sample(remaining_courses, min(num_req_courses, len(remaining_courses)))
\* if remaining_courses else []
req_course_lists(remaining, num_req_courses) ==
    IF remaining # << >>
    THEN sample(remaining, Min(num_req_courses, Len(remaining)))
    ELSE { << >> }

\* random.randint(1, max(1, len(req_courses) - 1))
min_course_choices(req_courses) == 1..Max(1, Len(req_courses) - 1)

req_requirement(deg_id, req_type, j, req_courses, min_courses) ==
    [id             |-> req_id(req_type, j, deg_id),
     degreeId       |-> deg_id,
     minimumCourses |-> min_courses,
     courses        |-> [k \in 1..Len(req_courses) |-> req_courses[k].id]]

\* one iteration of `for j in range(num_requirement_groups - 1)`
req_requirements(deg_id, remaining, j) ==
    UNION { UNION { { req_requirement(deg_id, rt, j, req_courses, min_courses) :
                        min_courses \in min_course_choices(req_courses) } :
                    req_courses \in req_course_lists(remaining, num_req_courses) } :
            rt \in ReqTypeDraws, num_req_courses \in 3..8 }

\* the groups appended by iterations j, j+1, .. num_requirement_groups - 2
RECURSIVE RequirementLists(_, _, _, _)
RequirementLists(deg_id, remaining, j, num_requirement_groups) ==
    IF j >= num_requirement_groups - 1 THEN { << >> }
    ELSE { << g >> \o rest :
             g \in req_requirements(deg_id, remaining, j),
             rest \in RequirementLists(deg_id, remaining, j + 1, num_requirement_groups) }

\* the requirement groups one degree appends: the core group, then the others
degree_requirements(cs, dept, deg_id, num_requirement_groups) ==
    UNION { UNION { { << core_requirement(deg_id, core_courses) >> \o others :
                        others \in RequirementLists(deg_id,
                                       remaining_courses(available, core_courses),
                                       0, num_requirement_groups) } :
                    core_courses \in core_course_lists(available) } :
            available \in available_courses(cs, dept) }

(***************************************************************************)
(* Specification of the degree assembler.  dept_courses is its parameter:  *)
(* the course list ranges over every list of up to NumDegreeCourses        *)
(* courses, so a department can be handed over with no course at all.      *)
(***************************************************************************)
DegreeLevels == { 100, 300 }

DegreeCourseLists ==
    UNION { { [i \in 1..n |-> CourseOf(i, shape)] :
                shape \in [1..n -> [department : Range(DEPARTMENTS), level : DegreeLevels]] } :
            n \in 0..NumDegreeCourses }

DegreesInit ==
    /\ pc = "degrees"
    /\ cfg = [NUM_DEGREES |-> 1]
    /\ now = Date(Year0, 1, 1)
    /\ terms = << >>
    /\ student = Idle /\ sidx = 0 /\ student_terms = << >> /\ tpos = 0
    /\ taken_courses = {} /\ completed_courses = << >> /\ enrolled_courses = << >>
    /\ last_term = << >>
    /\ courses \in DegreeCourseLists
    /\ prerequisites = << >> /\ cidx = 0 /\ work = Idle /\ NoEntities

\* One iteration of `for i in range(NUM_DEGREES)`.
DegreeStep ==
    /\ pc = "degrees"
    /\ Len(degrees) < cfg.NUM_DEGREES
    /\ \E dept \in Range(DEPARTMENTS), dt \in DegreeTypeDraws,
          num_requirement_groups \in 3..Min(7, MaxRequirementGroups) :
          LET deg_id == degree_id(dt.prefix, dept, Len(degrees)) IN
          /\ degrees' = Append(degrees, [id |-> deg_id, department |-> dept, type |-> dt.type])
          /\ \E groups \in degree_requirements(courses, dept, deg_id, num_requirement_groups) :
                requirement_groups' = requirement_groups \o groups
    /\ UNCHANGED <<pc, cfg, now, terms, histVars, courses, prerequisites, cidx,
                   students, faculty, work>>

DegreesReturn ==
    /\ pc = "degrees"
    /\ Len(degrees) >= cfg.NUM_DEGREES
    /\ pc' = "degrees_done"
    /\ UNCHANGED <<cfg, now, terms, histVars, courses, prerequisites, cidx, work, entityVars>>

DegreesNext == DegreeStep \/ DegreesReturn

SpecDegrees == DegreesInit /\ [][DegreesNext]_vars

MaxNumStudents == 2     \* NUM_STUDENTS ranges over 0..MaxNumStudents
MaxNumFaculty == 2      \* NUM_FACULTY ranges over 0..MaxNumFaculty

\* generate_campus_id: f"{letters}{numbers}", two letters and five digits
generate_campus_id(letters, numbers) == letters \o numbers

\* An id space of a single campus id.
CampusIds_Single == { generate_campus_id("AB", "10000") }

\* the campus ids the model draws: one more than the largest NUM_STUDENTS
CampusIds ==
    { generate_campus_id("AB", "1000" \o ToString(d)) : d \in 0..MaxNumStudents }

\* campus_id after `while any(s["id"] == campus_id for s in students):
\* campus_id = generate_campus_id()`: the first draw if it is free, any free
\* id otherwise
unique_campus_id(campus_id, existing) ==
    IF campus_id \notin existing THEN { campus_id } ELSE CampusIds \ existing

\* str(n).zfill(width)
zfill(str, width) == Repeat("0", width - Len(str)) \o str

\* f"F{str(i+1001).zfill(5)}"
faculty_id(i) == "F" \o zfill(ToString(i + 1001), 5)

\* the digits drawn for random.randint(1, 9)
SuffixDigits == { 1 }

\* the suffix is appended once, by an `if` in place of the `while`
unique_course_id_Once(course_id, existing) ==
    IF course_id \notin existing THEN { course_id }
    ELSE { course_id \o "-" \o ToString(d) : d \in SuffixDigits }

\* course_id after `while any(c["id"] == course_id for c in courses):
\* course_id = f"{course_id}-{random.randint(1, 9)}"`
RECURSIVE unique_course_id(_, _)
unique_course_id(course_id, existing) ==
    IF course_id \notin existing THEN { course_id }
    ELSE UNION { unique_course_id(course_id \o "-" \o ToString(d), existing) :
                   d \in SuffixDigits }

Ids(entities) == { entities[i].id : i \in 1..Len(entities) }

\* max(5, int(NUM_COURSES * (1 / len(DEPARTMENTS))))
dept_course_count(num_courses) == Max(5, num_courses \div Len(DEPARTMENTS))

\* the levels and padding letters the model draws for a course code
IdLevels == { 100, 200 }

IdLetters == { "S" }

\* the courses one draw of department, level and letter can append
new_courses(cs, dept, level, letter) ==
    { [id |-> id, department |-> dept, level |-> level] :
        id \in unique_course_id(generate_course_id(dept, level, letter), Ids(cs)) }

(***************************************************************************)
(* Specification of the entity generators.  A run is one generator, from   *)
(* its empty list to its return: generate_terms, generate_students,        *)
(* generate_faculty, generate_courses or generate_degrees.  Each checks    *)
(* identifiers against its own list only.                                  *)
(***************************************************************************)
NoHistory ==
    /\ student = Idle /\ sidx = 0 /\ student_terms = << >> /\ tpos = 0
    /\ taken_courses = {} /\ completed_courses = << >> /\ enrolled_courses = << >>
    /\ last_term = << >>

StudentsInit ==
    /\ pc = "students"
    /\ cfg \in [NUM_STUDENTS : 0..MaxNumStudents]
    /\ now = Date(Year0, 1, 1) /\ terms = << >> /\ NoHistory
    /\ courses = << >> /\ prerequisites = << >> /\ cidx = 0 /\ work = Idle /\ NoEntities

\* One iteration of `for i in range(NUM_STUDENTS)`.
StudentStep ==
    /\ pc = "students"
    /\ Len(students) < cfg.NUM_STUDENTS
    /\ \E campus_id \in CampusIds :
          /\ \E id \in unique_campus_id(campus_id, Ids(students)) :
                students' = Append(students, [id |-> id])
          /\ work' = [first_draw |-> campus_id]
    /\ UNCHANGED <<pc, cfg, now, terms, histVars, courses, prerequisites, cidx,
                   faculty, degrees, requirement_groups>>

StudentsReturn ==
    /\ pc = "students"
    /\ Len(students) >= cfg.NUM_STUDENTS
    /\ pc' = "students_done"
    /\ UNCHANGED <<cfg, now, terms, histVars, courses, prerequisites, cidx, work, entityVars>>

FacultyInit ==
    /\ pc = "faculty"
    /\ cfg \in [NUM_FACULTY : 0..MaxNumFaculty]
    /\ now = Date(Year0, 1, 1) /\ terms = << >> /\ NoHistory
    /\ courses = << >> /\ prerequisites = << >> /\ cidx = 0 /\ work = Idle /\ NoEntities

\* One iteration of `for i in range(NUM_FACULTY)`.
FacultyStep ==
    /\ pc = "faculty"
    /\ Len(faculty) < cfg.NUM_FACULTY
    /\ \E department \in Range(DEPARTMENTS) :
          faculty' = Append(faculty, [id |-> faculty_id(Len(faculty)),
                                      department |-> department])
    /\ UNCHANGED <<pc, cfg, now, terms, histVars, courses, prerequisites, cidx,
                   students, degrees, requirement_groups, work>>

FacultyReturn ==
    /\ pc = "faculty"
    /\ Len(faculty) >= cfg.NUM_FACULTY
    /\ pc' = "faculty_done"
    /\ UNCHANGED <<cfg, now, terms, histVars, courses, prerequisites, cidx, work, entityVars>>

\* NUM_COURSES: the smallest positive setting, which is below what the
\* departments' minimum of 5 adds up to, and one above that sum
CourseCounts == { 1, 5 * Len(DEPARTMENTS) + 1 }

CoursesInit ==
    /\ pc = "courses"
    /\ cfg \in [NUM_COURSES : CourseCounts]
    /\ now = Date(Year0, 1, 1) /\ terms = << >> /\ NoHistory
    /\ courses = << >> /\ prerequisites = << >> /\ cidx = 0 /\ work = Idle /\ NoEntities

\* One iteration of `for i in range(dept_course_count)`, inside `for dept in DEPARTMENTS`.
CourseStep ==
    /\ pc = "courses"
    /\ Len(courses) < dept_course_count(cfg.NUM_COURSES) * Len(DEPARTMENTS)
    /\ LET dept == DEPARTMENTS[(Len(courses) \div dept_course_count(cfg.NUM_COURSES)) + 1] IN
       \E level \in IdLevels, letter \in IdLetters :
          /\ \E course \in new_courses(courses, dept, level, letter) :
                courses' = Append(courses, course)
          /\ work' = [first_draw |-> generate_course_id(dept, level, letter)]
    /\ UNCHANGED <<pc, cfg, now, terms, histVars, prerequisites, cidx, entityVars>>

\* One iteration of `while len(courses) < NUM_COURSES`.
CourseTopUp ==
    /\ pc = "courses"
    /\ Len(courses) >= dept_course_count(cfg.NUM_COURSES) * Len(DEPARTMENTS)
    /\ Len(courses) < cfg.NUM_COURSES
    /\ \E dept \in Range(DEPARTMENTS), level \in IdLevels, letter \in IdLetters :
          /\ \E course \in new_courses(courses, dept, level, letter) :
                courses' = Append(courses, course)
          /\ work' = [first_draw |-> generate_course_id(dept, level, letter)]
    /\ UNCHANGED <<pc, cfg, now, terms, histVars, prerequisites, cidx, entityVars>>

CoursesReturn ==
    /\ pc = "courses"
    /\ Len(courses) >= dept_course_count(cfg.NUM_COURSES) * Len(DEPARTMENTS)
    /\ Len(courses) >= cfg.NUM_COURSES
    /\ pc' = "courses_done"
    /\ UNCHANGED <<cfg, now, terms, histVars, courses, prerequisites, cidx, work, entityVars>>

\* generate_degrees over a one-course catalogue, for any number of degrees
DegreeIdsInit ==
    /\ pc = "degrees"
    /\ cfg \in [NUM_DEGREES : 0..MaxDegrees]
    /\ now = Date(Year0, 1, 1) /\ terms = << >> /\ NoHistory
    /\ courses = << CourseOf(1, << [department |-> DEPARTMENTS[1], level |-> 100] >>) >>
    /\ prerequisites = << >> /\ cidx = 0 /\ work = Idle /\ NoEntities

EntitiesInit ==
    TermsInit \/ StudentsInit \/ FacultyInit \/ CoursesInit \/ DegreeIdsInit

EntitiesNext ==
    \/ GenerateTerms
    \/ StudentStep \/ StudentsReturn
    \/ FacultyStep \/ FacultyReturn
    \/ CourseStep \/ CourseTopUp \/ CoursesReturn
    \/ DegreeStep \/ DegreesReturn

SpecEntities == EntitiesInit /\ [][EntitiesNext]_vars

NoDuplicates(entities) ==
    \A i, j \in 1..Len(entities) : i # j => entities[i].id # entities[j].id

\* C6: within each entity type no two entities share an id: students (whose
\* campus id is redrawn on a collision), courses (whose code is suffixed on a
\* collision), faculty, degrees, terms and requirement groups.
UniqueIdentifiers ==
    /\ NoDuplicates(students)
    /\ NoDuplicates(courses)
    /\ NoDuplicates(faculty)
    /\ NoDuplicates(degrees)
    /\ NoDuplicates(terms)
    /\ NoDuplicates(requirement_groups)

\* a course of one department drew the code of a course of another department,
\* and the first suffix it tried was taken as well
UniqueIdentifiersWitness ==
    /\ pc = "courses"
    /\ work # Idle
    /\ Len(courses) >= 3
    /\ LET last == courses[Len(courses)] IN
       /\ last.id = work.first_draw \o "-1-1"
       /\ \E i \in 1..(Len(courses) - 1) :
             /\ courses[i].id = work.first_draw
             /\ courses[i].department # last.department

(***************************************************************************)
(* Payload values.  Fractions are kept in hundredths (0.85 is 85), grade   *)
(* points in tenths (3.7 is 37).                                           *)
(***************************************************************************)
MaxCommonCourses == 3   \* students compared have 3..MaxCommonCourses courses in common
MaxSharedTags == 5      \* two courses share 1..MaxSharedTags tags

\* round(x) of a value given in hundredths: to the nearest integer, ties to even
round(hundredths) ==
    LET q == hundredths \div 100
        r == hundredths % 100
    IN IF r < 50 THEN q
       ELSE IF r > 50 THEN q + 1
       ELSE IF q % 2 = 0 THEN q ELSE q + 1

\* round(num / den): the nearest integer, either neighbour on a tie (the float
\* quotient of a tie may fall on either side)
round_div(num, den) ==
    LET q == num \div den
        twice == 2 * (num % den)
    IN IF twice < den THEN { q }
       ELSE IF twice > den THEN { q + 1 }
       ELSE { q, q + 1 }

\* COURSE_DIFFICULTY_DISTRIBUTION's keys
COURSE_DIFFICULTY_DISTRIBUTION == 1..5

\* GRADE_DISTRIBUTION's keys
GRADE_DISTRIBUTION ==
    { "A", "A-", "B+", "B", "B-", "C+", "C", "C-", "D+", "D", "F", "W" }

\* grade_map.get(grade, 0), in tenths
grade_map(grade) ==
    CASE grade = "A" -> 40 [] grade = "A-" -> 37
      [] grade = "B+" -> 33 [] grade = "B" -> 30 [] grade = "B-" -> 27
      [] grade = "C+" -> 23 [] grade = "C" -> 20 [] grade = "C-" -> 17
      [] grade = "D+" -> 13 [] grade = "D" -> 10 [] grade = "D-" -> 7
      [] OTHER -> 0

\* credits of a course: 3, else 4, else random.choice([1, 2]); 3 for a course
\* added by the `while len(courses) < NUM_COURSES` loop
course_credits(topped_up) ==
    IF topped_up THEN { 3 } ELSE { 3 } \cup { 4 } \cup { 1, 2 }

\* a learner-success rate of a course: round(random.uniform(0.6, 1.0), 2),
\* raised by min(1.0, rate + 0.2) for a name with a style keyword
NoRate == 0

learner_success_rates ==
    (60..100) \cup { Min(100, rate + 20) : rate \in 60..100 }

\* An adjustment of (rate - 0.8) * 5, which reaches a full point.
style_match_modifier_Strong(rate) ==
    IF rate = NoRate THEN 0 ELSE (rate - 80) * 5

\* style_match_modifier, in hundredths: (rate - 0.8) * 2 when the course has the
\* rate of the student's style, 0 when it has not
style_match_modifier(rate) == IF rate = NoRate THEN 0 ELSE (rate - 80) * 2

\* max(1, min(5, round(base_difficulty - style_match_modifier)))
perceived_difficulty(base_difficulty, modifier) ==
    Max(1, Min(5, round(100 * base_difficulty - modifier)))

Abs(x) == IF x < 0 THEN 0 - x ELSE x

\* similarity_score of generate_student_similarity's learning-style edge;
\* noise is random.uniform(-0.1, 0.1)
learning_style_score(same_pace, load_diff, same_mode, noise) ==
    LET base_similarity == 70 + (IF same_pace THEN 10 ELSE 0) - (load_diff * 2)
                              + (IF same_mode THEN 10 ELSE 0)
    IN Max(10, Min(100, base_similarity + noise))

\* sum(diffs) of every list of n values of a set
RECURSIVE Sums(_, _)
Sums(values, n) ==
    IF n = 0 THEN { 0 } ELSE { a + b : a \in values, b \in Sums(values, n - 1) }

\* abs(student_grade - other_grade), in tenths, over the grades a record can carry
grade_diffs == { Abs(grade_map(a) - grade_map(b)) : a, b \in GRADE_DISTRIBUTION }

\* abs(student_diff - other_diff) over the difficulties a record can carry
difficulty_diffs ==
    { Abs(perceived_difficulty(a, 0) - perceived_difficulty(b, 0)) :
        a, b \in COURSE_DIFFICULTY_DISTRIBUTION }

\* grade_similarity = max(0, 1 - avg_grade_diff / 4.0), as a multiple of 1/(40 n)
grade_similarity(n, grade_sum) == Max(0, 40 * n - grade_sum)

\* diff_similarity = max(0, 1 - avg_diff_diff / 5.0), as a multiple of 1/(40 n)
diff_similarity(n, difficulty_sum) == Max(0, 40 * n - 8 * difficulty_sum)

\* the two parts are added up without their weights
overall_similarity_Unweighted(n, grade_sum, difficulty_sum) ==
    round_div(100 * grade_similarity(n, grade_sum)
                + 100 * diff_similarity(n, difficulty_sum), 40 * n)

\* round(grade_similarity * 0.7 + diff_similarity * 0.3, 2), for n common courses
overall_similarity(n, grade_sum, difficulty_sum) ==
    round_div(70 * grade_similarity(n, grade_sum)
                + 30 * diff_similarity(n, difficulty_sum), 40 * n)

\* round(random.uniform(0.1, 0.8), 2)
same_dept_content_scores == 10..80

\* round(min(0.9, 0.2 + shared_tags * 0.1 + random.uniform(0, 0.2)), 2)
tag_content_score(shared_tags, noise) == Min(90, 20 + shared_tags * 10 + noise)

\* round(1.0 - difficulty_diff / 5.0, 2) for two courses whose avgDifficulty
\* differ by at most 1; no edge otherwise
difficulty_similarity_scores(avg_difficulty, similar_avg_difficulty) ==
    LET difficulty_diff == Abs(avg_difficulty - similar_avg_difficulty)
    IN IF difficulty_diff <= 1 THEN { 100 - 20 * difficulty_diff } ELSE { }

(***************************************************************************)
(* Specification of the payload values: a run computes one payload from    *)
(* sampled attributes.                                                     *)
(***************************************************************************)
PayloadInit ==
    /\ pc = "payload"
    /\ cfg = Idle
    /\ now = Date(Year0, 1, 1) /\ terms = << >> /\ NoHistory
    /\ courses = << >> /\ prerequisites = << >> /\ cidx = 0 /\ work = Idle /\ NoEntities

payloadFrame == <<cfg, now, terms, histVars, courses, prerequisites, cidx, entityVars>>

CourseCredits ==
    /\ pc = "payload"
    /\ \E topped_up \in BOOLEAN : \E credits \in course_credits(topped_up) :
          work' = [kind |-> "credits", topped_up |-> topped_up, value |-> credits]
    /\ pc' = "payload_done"
    /\ UNCHANGED payloadFrame

CompletedDifficulty ==
    /\ pc = "payload"
    /\ \E base_difficulty \in COURSE_DIFFICULTY_DISTRIBUTION,
          rate \in learner_success_rates \cup { NoRate } :
          work' = [kind |-> "difficulty", avgDifficulty |-> base_difficulty, rate |-> rate,
                   value |-> perceived_difficulty(base_difficulty,
                                                  style_match_modifier(rate))]
    /\ pc' = "payload_done"
    /\ UNCHANGED payloadFrame

LearningStyleSimilarity ==
    /\ pc = "payload"
    /\ \E same_pace \in BOOLEAN, same_mode \in BOOLEAN,
          load \in 2..5, similar_load \in 2..5, noise \in (0 - 10)..10 :
          work' = [kind |-> "SIMILAR_LEARNING_STYLE",
                   same_pace |-> same_pace, same_mode |-> same_mode,
                   load_diff |-> Abs(similar_load - load), noise |-> noise,
                   value |-> learning_style_score(same_pace, Abs(similar_load - load),
                                                  same_mode, noise)]
    /\ pc' = "payload_done"
    /\ UNCHANGED payloadFrame

PerformanceSimilarity ==
    /\ pc = "payload"
    /\ \E n \in 3..MaxCommonCourses :
       \E grade_sum \in Sums(grade_diffs, n), difficulty_sum \in Sums(difficulty_diffs, n) :
       \E score \in overall_similarity(n, grade_sum, difficulty_sum) :
          work' = [kind |-> "SIMILAR_PERFORMANCE", common |-> n, grade_sum |-> grade_sum,
                   difficulty_sum |-> difficulty_sum, value |-> score]
    /\ pc' = "payload_done"
    /\ UNCHANGED payloadFrame

\* an edge to a course of the same department
DeptContentSimilarity ==
    /\ pc = "payload"
    /\ \E score \in same_dept_content_scores :
          work' = [kind |-> "SIMILAR_CONTENT", shared_tags |-> 0, value |-> score]
    /\ pc' = "payload_done"
    /\ UNCHANGED payloadFrame

\* an edge to a course with shared tags
TagContentSimilarity ==
    /\ pc = "payload"
    /\ \E shared_tags \in 1..MaxSharedTags, noise \in 0..20 :
          work' = [kind |-> "SIMILAR_CONTENT", shared_tags |-> shared_tags,
                   value |-> tag_content_score(shared_tags, noise)]
    /\ pc' = "payload_done"
    /\ UNCHANGED payloadFrame

DifficultySimilarity ==
    /\ pc = "payload"
    /\ \E a \in COURSE_DIFFICULTY_DISTRIBUTION, b \in COURSE_DIFFICULTY_DISTRIBUTION :
       \E score \in difficulty_similarity_scores(a, b) :
          work' = [kind |-> "SIMILAR_DIFFICULTY", avgDifficulty |-> a,
                   similarAvgDifficulty |-> b, value |-> score]
    /\ pc' = "payload_done"
    /\ UNCHANGED payloadFrame

PayloadNext ==
    \/ CourseCredits \/ CompletedDifficulty \/ LearningStyleSimilarity
    \/ PerformanceSimilarity \/ DeptContentSimilarity \/ TagContentSimilarity
    \/ DifficultySimilarity

SpecPayload == PayloadInit /\ [][PayloadNext]_vars

\* C8: a COMPLETED record's difficulty is an integer in 1..5, a course's credits
\* are 1, 2, 3 or 4, and every similarity score lies in [0, 1] (0..100
\* hundredths), whatever attributes were sampled.
BoundedPayloads ==
    pc = "payload_done" =>
        CASE work.kind = "difficulty" -> work.value \in 1..5
          [] work.kind = "credits" -> work.value \in { 1, 2, 3, 4 }
          [] OTHER -> work.value \in 0..100

\* the hardest course taken against the learner's style: 5 + 0.4 is recorded as 5
BoundedPayloadsWitness ==
    /\ pc = "payload_done"
    /\ work.kind = "difficulty"
    /\ work.avgDifficulty = 5
    /\ work.rate = 60
    /\ work.value = 5

(***************************************************************************)
(* The window of generated terms.                                          *)
(***************************************************************************)
\* The three terms of every year from current_year - HISTORY_YEARS to
\* current_year + 1, oldest first.
WindowTerms(current_year, history_years) ==
    Flatten([i \in 1..(history_years + 2) |->
                [k \in 1..3 |-> MakeTerm(current_year - history_years + i - 1,
                                         term_info[k])]])

\* C11: the generated terms are the terms of the window from HISTORY_YEARS
\* years before the current year to one year ahead, three per year, cut at
\* the TERMS_TO_GENERATE cap, and under the default configuration the term
\* of the generation date and the three terms of the following year are
\* among them.
TermsCoverWindow ==
    pc = "terms_done" =>
        LET window == WindowTerms(now.y, cfg.HISTORY_YEARS) IN
        /\ \E n \in 0..Len(window) : terms = SubSeq(window, 1, n)
        /\ Len(terms) = Len(window) \/ Len(terms) >= cfg.TERMS_TO_GENERATE
        /\ cfg = DefaultConfig =>
              /\ get_term_by_date(now) \in Ids(terms)
              /\ \A k \in 1..3 : MakeTerm(now.y + 1, term_info[k]).id \in Ids(terms)

(***************************************************************************)
(* Properties of the term walk of one student.                             *)
(***************************************************************************)
\* C12: every term in which a student has a COMPLETED or ENROLLED_IN record
\* lies inside the student's active window: it does not end before the
\* student's enrollmentDate and does not start after the generation date.
RecordsInsideActiveWindow ==
    (student # Idle /\ last_term # Idle /\ last_term.selected # << >>) =>
        /\ ~DateBefore(last_term.term.endDate, student.enrollmentDate)
        /\ ~DateBefore(now, last_term.term.startDate)

\* the courses with no incoming PREREQUISITE_FOR edge
NoPrereqCourses ==
    { courses[i] : i \in { j \in 1..Len(courses) :
        \A e \in 1..Len(prerequisites) : prerequisites[e].target # courses[j].id } }

\* C13 as stated: in the first term a student walks, every course with no
\* incoming PREREQUISITE_FOR edge is in the filtered pool, whatever the
\* term's season.
NoPrereqEligibleInFirstTerm ==
    (student # Idle /\ tpos = 1 /\ last_term # Idle) =>
        \A c \in NoPrereqCourses : c.id \in last_term.valid

\* C13, amended: in the first term a student walks, every course with no
\* incoming PREREQUISITE_FOR edge that is offered in that term's season is
\* in the filtered pool.
NoPrereqOfferedEligibleInFirstTerm ==
    (student # Idle /\ tpos = 1 /\ last_term # Idle) =>
        \A c \in NoPrereqCourses :
            last_term.term.type \in c.termAvailability => c.id \in last_term.valid

\* A first term in Summer with one course without prerequisites that is
\* offered in Summer and in the pool, and one that is not offered.
NoPrereqOfferedEligibleInFirstTermWitness ==
    /\ student # Idle /\ tpos = 1 /\ last_term # Idle
    /\ last_term.term.type = "Summer"
    /\ \E c \in NoPrereqCourses : "Summer" \in c.termAvailability /\ c.id \in last_term.valid
    /\ \E c \in NoPrereqCourses : "Summer" \notin c.termAvailability /\ c.id \notin last_term.valid
    /\ \E e \in 1..Len(prerequisites) :
          prerequisites[e].target \notin last_term.valid

\* the records written for the current student in the term just walked
TermRecordCount ==
    LET own(records) == SelectSeq(records, LAMBDA r : r.studentId = student.id)
    IN Len(SelectSeq(own(completed_courses), LAMBDA r : r.term = last_term.term.id))
       + (IF IsCurrentTerm(last_term.term, now) THEN Len(own(enrolled_courses)) ELSE 0)

MaxCompleted == 3

\* GRADE_DISTRIBUTION with its weights, in hundredths
grade_weights ==
    [g \in GRADE_DISTRIBUTION |->
        CASE g \in {"A", "A-", "B+", "B"} -> 15
          [] g \in {"B-", "C+"} -> 10
          [] g = "C" -> 8 [] g = "C-" -> 5 [] g = "D+" -> 3 [] g = "D" -> 2
          [] g \in {"F", "W"} -> 1]

\* The distributions of the model: the single-entry one, one with a second
\* entry of weight zero, and the one the repository ships with.
GradeDistributions ==
    { [g \in {"A"} |-> 100],
      [g \in {"A", "F"} |-> IF g = "A" THEN 100 ELSE 0],
      grade_weights }

\* A draw that ignores the weights it is given.
weighted_choice_AnyGrade(choices_dict) == GRADE_DISTRIBUTION

\* random.choices(choices, weights=weights, k=1)[0]: a key of positive weight
weighted_choice(choices_dict) ==
    { choice \in DOMAIN choices_dict : choices_dict[choice] > 0 }

\* grade_points.get(grade, 0.0), in tenths
grade_points(grade) ==
    CASE grade = "A" -> 40 [] grade = "A-" -> 37
      [] grade = "B+" -> 33 [] grade = "B" -> 30 [] grade = "B-" -> 27
      [] grade = "C+" -> 23 [] grade = "C" -> 20 [] grade = "C-" -> 17
      [] grade = "D+" -> 13 [] grade = "D" -> 10 [] grade = "F" -> 0
      [] OTHER -> 0

RECURSIVE sum(_)
sum(points) == IF points = << >> THEN 0 ELSE Head(points) + sum(Tail(points))

\* calculate_gpa: the quotient sum(points) / len(points) is kept as the pair
\* of its numerator (in tenths) and denominator; 0.0 is 0 / 1.
calculate_gpa(grades) ==
    IF grades = << >> THEN [points |-> 0, count |-> 1]
    ELSE [points |-> sum([i \in 1..Len(grades) |-> grade_points(grades[i])]),
          count  |-> Len(grades)]

GradesInit ==
    /\ pc = "grades"
    /\ cfg \in [GRADE_DISTRIBUTION : GradeDistributions]
    /\ now = Date(Year0, 1, 1)
    /\ terms = << >>
    /\ student = Idle /\ sidx = 0 /\ student_terms = << >> /\ tpos = 0
    /\ taken_courses = {} /\ completed_courses = << >> /\ enrolled_courses = << >>
    /\ last_term = Idle
    /\ courses = << >> /\ prerequisites = << >> /\ cidx = 0 /\ work = Idle /\ NoEntities

\* the grade of one more COMPLETED record
CompletedGrade ==
    /\ pc = "grades"
    /\ Len(completed_courses) < MaxCompleted
    /\ \E grade \in weighted_choice(cfg.GRADE_DISTRIBUTION) :
          completed_courses' = Append(completed_courses, [grade |-> grade])
    /\ UNCHANGED <<pc, cfg, now, terms, student, sidx, student_terms, tpos, taken_courses,
                   enrolled_courses, last_term, courses, prerequisites, cidx, work,
                   entityVars>>

\* the coach's average over the grades collected from the COMPLETED records
CalculateGpa ==
    /\ pc = "grades"
    /\ LET grades == [i \in 1..Len(completed_courses) |-> completed_courses[i].grade]
       IN work' = [grades |-> grades, gpa |-> calculate_gpa(grades)]
    /\ pc' = "grades_done"
    /\ UNCHANGED <<cfg, now, terms, histVars, courses, prerequisites, cidx, entityVars>>

GradesNext == CompletedGrade \/ CalculateGpa

SpecGrades == GradesInit /\ [][GradesNext]_vars

\* C15: with the single-entry distribution {"A": 1.0} every COMPLETED
\* record has grade "A", and calculate_gpa returns exactly 4.0 for every
\* non-empty list of these grades and 0.0 only for the empty list.
AllAGradesGiveFourPointZero ==
    DOMAIN cfg.GRADE_DISTRIBUTION = {"A"} =>
        /\ \A i \in 1..Len(completed_courses) : completed_courses[i].grade = "A"
        /\ pc = "grades_done" =>
              /\ work.grades # << >> => work.gpa.points = 40 * work.gpa.count
              /\ work.gpa.points = 0 <=> work.grades = << >>

\* The average of three "A" grades drawn from the single-entry distribution.
AllAGradesGiveFourPointZeroWitness ==
    /\ pc = "grades_done"
    /\ DOMAIN cfg.GRADE_DISTRIBUTION = {"A"}
    /\ Len(work.grades) >= 2
    /\ work.gpa = [points |-> 40 * Len(work.grades), count |-> Len(work.grades)]

(***************************************************************************)
(* Sizes of the generated populations.                                     *)
(***************************************************************************)
\* C16: for every positive setting of the counts the snapshot holds exactly
\* NUM_STUDENTS students, NUM_COURSES courses, NUM_FACULTY faculty members
\* and NUM_DEGREES degrees.
PopulationSizesHonoured ==
    /\ (pc = "students_done" /\ cfg.NUM_STUDENTS > 0) => Len(students) = cfg.NUM_STUDENTS
    /\ (pc = "courses_done" /\ cfg.NUM_COURSES > 0) => Len(courses) = cfg.NUM_COURSES
    /\ (pc = "faculty_done" /\ cfg.NUM_FACULTY > 0) => Len(faculty) = cfg.NUM_FACULTY
    /\ (pc = "degrees_done" /\ cfg.NUM_DEGREES > 0) => Len(degrees) = cfg.NUM_DEGREES

(***************************************************************************)
(* Enrollment dates.                                                       *)
(***************************************************************************)
\* the same day of the year, `years` years earlier
YearsBefore(date, years) == Date(date.y - years, date.m, date.d)

\* C17: every student's enrollmentDate lies between 1 and 5 years before
\* the generation date: it is not later than one year before that date and
\* not earlier than five years before it.
EnrollmentOneToFiveYearsAgo ==
    student # Idle =>
        /\ ~DateBefore(YearsBefore(now, 1), student.enrollmentDate)
        /\ ~DateBefore(student.enrollmentDate, YearsBefore(now, 5))

(***************************************************************************)
(* Steps that can raise.  random.randint(a, b) raises ValueError when      *)
(* a > b and random.choice raises IndexError on an empty list; nothing in  *)
(* the generator catches either, so the run ends with the exception.       *)
(***************************************************************************)
\* the settings of MAX_PREREQS_PER_COURSE, from 1 to the shipped value
PrereqCaps == 1..MAX_PREREQS_PER_COURSE

RaisingPrereqInit ==
    /\ pc = "prereq"
    /\ cfg \in [MAX_PREREQS_PER_COURSE : PrereqCaps]
    /\ now = Date(Year0, 1, 1) /\ terms = << >> /\ NoHistory
    /\ courses \in CourseLists(NumPrereqCourses - 1)
    /\ prerequisites = << >> /\ cidx = 1 /\ work = Idle /\ NoEntities

\* `num_prereqs = random.randint(2, MAX_PREREQS_PER_COURSE)` with an empty range
PrereqRaise ==
    /\ pc = "prereq"
    /\ cidx <= Len(courses)
    /\ courses[cidx].level > 100
    /\ NumPrereqChoices(courses[cidx].level, cfg.MAX_PREREQS_PER_COURSE) = {}
    /\ pc' = "raised"
    /\ work' = [raised |-> "ValueError", step |-> "generate_prerequisites"]
    /\ UNCHANGED <<cfg, now, terms, histVars, courses, prerequisites, cidx, entityVars>>

\* the students and degrees handed to generate_student_degree_relationships
StudentDegreeInit ==
    /\ pc = "student_degree"
    /\ cfg \in [NUM_STUDENTS : 1..MaxNumStudents, NUM_DEGREES : 1..MaxDegrees]
    /\ now = Date(Year0, 1, 1) /\ terms = << >> /\ NoHistory
    /\ courses = << >> /\ prerequisites = << >> /\ cidx = 0
    /\ students = [i \in 1..cfg.NUM_STUDENTS |-> [id |-> StudentId(i)]]
    /\ \E dt \in DegreeTypeDraws :
          degrees = [i \in 1..cfg.NUM_DEGREES |->
                        [id |-> degree_id(dt.prefix, DEPARTMENTS[1], i - 1),
                         department |-> DEPARTMENTS[1], type |-> dt.type]]
    /\ faculty = << >> /\ requirement_groups = << >>
    /\ work = [student_degree |-> << >>]

StudentDegreeEdge(st, degree) == [studentId |-> st.id, degreeId |-> degree.id]

\* [d for d in degrees if d["id"] != primary_degree["id"]]
other_degrees(ds, primary_degree) ==
    SelectSeq(ds, LAMBDA d : d.id # primary_degree.id)

\* One iteration of `for student in students`, the second degree included.
StudentDegreeStep ==
    /\ pc = "student_degree"
    /\ sidx < Len(students)
    /\ \E primary_degree \in Range(degrees), double_major \in BOOLEAN :
          LET first == StudentDegreeEdge(students[sidx + 1], primary_degree) IN
          IF double_major
          THEN \E second_degree \in Range(other_degrees(degrees, primary_degree)) :
                  work' = [work EXCEPT !.student_degree =
                             @ \o << first, StudentDegreeEdge(students[sidx + 1], second_degree) >>]
          ELSE work' = [work EXCEPT !.student_degree = Append(@, first)]
    /\ sidx' = sidx + 1
    /\ UNCHANGED <<pc, cfg, now, terms, student, student_terms, tpos, taken_courses,
                   completed_courses, enrolled_courses, last_term, courses, prerequisites,
                   cidx, entityVars>>

\* `random.choice([...])` over an empty list of other degrees
StudentDegreeRaise ==
    /\ pc = "student_degree"
    /\ sidx < Len(students)
    /\ \E primary_degree \in Range(degrees) :
          other_degrees(degrees, primary_degree) = << >>
    /\ pc' = "raised"
    /\ work' = [raised |-> "IndexError", step |-> "generate_student_degree_relationships"]
    /\ UNCHANGED <<cfg, now, terms, histVars, courses, prerequisites, cidx, entityVars>>

StudentDegreeReturn ==
    /\ pc = "student_degree"
    /\ sidx = Len(students)
    /\ pc' = "student_degree_done"
    /\ sidx' = 0
    /\ UNCHANGED <<cfg, now, terms, student, student_terms, tpos, taken_courses,
                   completed_courses, enrolled_courses, last_term, courses, prerequisites,
                   cidx, work, entityVars>>

RaisingInit == RaisingPrereqInit \/ StudentDegreeInit

RaisingNext ==
    \/ PrereqCourse \/ PrereqRaise \/ PrereqReturn
    \/ StudentDegreeStep \/ StudentDegreeRaise \/ StudentDegreeReturn

SpecRaising == RaisingInit /\ [][RaisingNext]_vars

\* C18: for every setting of the configuration with positive counts
\* (MAX_PREREQS_PER_COURSE = 1 and NUM_DEGREES = 1 included) every
\* generation step runs to completion without raising.
NoSurfacedFailure == pc # "raised"

(***************************************************************************)
(* The identifier loops, one evaluation of the `while` condition per step. *)
(* work holds the candidate id and whether the loop body has run for it.   *)
(***************************************************************************)
MaxLoopCourses == 3

\* the digits drawn for random.randint(1, 9) in the course-id loop
LoopDigits == { 1, 2 }

StudentLoopInit ==
    /\ pc = "student_draw"
    /\ cfg \in [NUM_STUDENTS : 1..MaxNumStudents]
    /\ now = Date(Year0, 1, 1) /\ terms = << >> /\ NoHistory
    /\ courses = << >> /\ prerequisites = << >> /\ cidx = 0 /\ work = Idle /\ NoEntities

\* `campus_id = generate_campus_id()` at the top of an iteration
StudentDraw ==
    /\ pc = "student_draw"
    /\ \E campus_id \in CampusIds : work' = [candidate |-> campus_id, retried |-> FALSE]
    /\ pc' = "student_loop"
    /\ UNCHANGED <<cfg, now, terms, histVars, courses, prerequisites, cidx, entityVars>>

\* the `while` condition holds: `campus_id = generate_campus_id()` again
StudentRedraw ==
    /\ pc = "student_loop"
    /\ work.candidate \in Ids(students)
    /\ \E campus_id \in CampusIds : work' = [candidate |-> campus_id, retried |-> TRUE]
    /\ UNCHANGED <<pc, cfg, now, terms, histVars, courses, prerequisites, cidx, entityVars>>

\* a redraw that returns an id no earlier student has
StudentRedrawFree == StudentRedraw /\ work'.candidate \notin Ids(students)

\* the `while` condition fails: the rest of the iteration appends the student
StudentExit ==
    /\ pc = "student_loop"
    /\ work.candidate \notin Ids(students)
    /\ students' = Append(students, [id |-> work.candidate])
    /\ pc' = IF Len(students) + 1 < cfg.NUM_STUDENTS THEN "student_draw" ELSE "students_done"
    /\ UNCHANGED <<cfg, now, terms, histVars, courses, prerequisites, cidx, work,
                   faculty, degrees, requirement_groups>>

CourseLoopInit ==
    /\ pc = "course_draw"
    /\ cfg \in [NUM_COURSES : 1..MaxLoopCourses]
    /\ now = Date(Year0, 1, 1) /\ terms = << >> /\ NoHistory
    /\ courses = << >> /\ prerequisites = << >> /\ cidx = 0 /\ work = Idle /\ NoEntities

\* `course_id = generate_course_id(dept, level)`
CourseDraw ==
    /\ pc = "course_draw"
    /\ \E dept \in Range(DEPARTMENTS), level \in IdLevels, letter \in IdLetters :
          work' = [candidate |-> generate_course_id(dept, level, letter), retried |-> FALSE,
                   department |-> dept, level |-> level]
    /\ pc' = "course_loop"
    /\ UNCHANGED <<cfg, now, terms, histVars, courses, prerequisites, cidx, entityVars>>

\* the `while` condition holds: `course_id = f"{course_id}-{random.randint(1, 9)}"`
CourseSuffix ==
    /\ pc = "course_loop"
    /\ work.candidate \in Ids(courses)
    /\ \E d \in LoopDigits :
          work' = [work EXCEPT !.candidate = @ \o "-" \o ToString(d), !.retried = TRUE]
    /\ UNCHANGED <<pc, cfg, now, terms, histVars, courses, prerequisites, cidx, entityVars>>

\* the `while` condition fails: the rest of the iteration appends the course
CourseExit ==
    /\ pc = "course_loop"
    /\ work.candidate \notin Ids(courses)
    /\ courses' = Append(courses, [id |-> work.candidate, department |-> work.department,
                                   level |-> work.level])
    /\ pc' = IF Len(courses) + 1 < cfg.NUM_COURSES THEN "course_draw" ELSE "courses_done"
    /\ UNCHANGED <<cfg, now, terms, histVars, prerequisites, cidx, work, entityVars>>

LoopsInit == StudentLoopInit \/ CourseLoopInit

LoopsNext ==
    \/ StudentDraw \/ StudentRedraw \/ StudentExit
    \/ CourseDraw \/ CourseSuffix \/ CourseExit

\* The interpreter runs the next statement, and a campus id that keeps being
\* drawn with positive probability is drawn eventually.
SpecLoops ==
    LoopsInit /\ [][LoopsNext]_vars /\ WF_vars(LoopsNext) /\ WF_vars(StudentRedrawFree)

\* C19: the campus-id retry loop eventually exits, with an id no earlier
\* student has, and the course-id loop exits after finitely many suffix
\* appends whatever digits are drawn; both generators reach their return.
IdLoopsTerminate ==
    /\ (pc = "student_loop") ~> (pc # "student_loop")
    /\ (pc = "course_loop") ~> (pc # "course_loop")
    /\ <>(pc \in {"students_done", "courses_done"})
    /\ [](NoDuplicates(students) /\ NoDuplicates(courses))

\* A loop left after its body ran: a student appended after a redraw, or a
\* course appended with two suffixes.
IdLoopsTerminateWitness ==
    \/ /\ pc = "students_done" /\ work.retried
       /\ Len(students) >= 2
       /\ students[Len(students)].id = work.candidate
    \/ /\ pc = "courses_done" /\ work.retried
       /\ Len(courses) >= 3
       /\ \E d1, d2 \in LoopDigits, i \in 1..Len(courses) :
             work.candidate = courses[i].id \o "-" \o ToString(d1) \o "-" \o ToString(d2)

(***************************************************************************)
(* main: the generators in the order main calls them, over one small       *)
(* catalogue.  work holds main's locals that have no variable of their     *)
(* own.  Numeric payloads of the similarity and LEADS_TO edges are left    *)
(* out here: SpecPayload has them.                                         *)
(***************************************************************************)
MainConfig ==
    [HISTORY_YEARS |-> 0, TERMS_TO_GENERATE |-> 3, NUM_STUDENTS |-> 1, NUM_FACULTY |-> 1,
     NUM_DEGREES |-> 1, MAX_PREREQS_PER_COURSE |-> MAX_PREREQS_PER_COURSE]

MainLocals ==
    [faculty_by_dept |-> << >>, dept_courses |-> << >>, leads_to |-> << >>,
     similarity_content |-> << >>, similarity_difficulty |-> << >>,
     student_degree |-> << >>, teaching |-> << >>,
     learning_style_similarity |-> << >>, performance_similarity |-> << >>,
     exported |-> FALSE]

MainInit ==
    /\ pc = "terms"
    /\ cfg = MainConfig
    /\ now = Date(Year0, 11, 4)
    /\ terms = << >> /\ NoHistory
    /\ courses = << >> /\ prerequisites = << >> /\ cidx = 0 /\ NoEntities
    /\ work = MainLocals

\* every subsequence of a list: each element kept or dropped by a draw of
\* random.random()
RECURSIVE SubSequences(_)
SubSequences(seq) ==
    IF seq = << >> THEN { << >> }
    ELSE LET rest == SubSequences(Tail(seq))
         IN rest \cup { << Head(seq) >> \o r : r \in rest }

\* every concatenation of one list out of each set of lists, in order
RECURSIVE Concatenations(_)
Concatenations(sets) ==
    IF sets = << >> THEN { << >> }
    ELSE { a \o rest : a \in Head(sets), rest \in Concatenations(Tail(sets)) }

\* a defaultdict(list) filled by `by_key[key].append(item)` over a list
grouped_by(items, key(_)) ==
    [k \in { key(items[i]) : i \in 1..Len(items) } |->
        SelectSeq(items, LAMBDA x : key(x) = k)]

\* generate_students: the enrollment date drawn with enrollment_years_ago = 1
\* and random_days = 0
MainStudents ==
    /\ pc = "terms_done"
    /\ \E dates \in [1..cfg.NUM_STUDENTS -> { generate_date(now.y - 1, now.y, 0) }],
          loads \in [1..cfg.NUM_STUDENTS -> CourseLoads] :
          students' = [i \in 1..cfg.NUM_STUDENTS |->
                          [id |-> StudentId(i), enrollmentDate |-> dates[i],
                           preferredCourseLoad |-> loads[i], learningStyle |-> "Visual"]]
    /\ pc' = "students_done"
    /\ UNCHANGED <<cfg, now, terms, histVars, courses, prerequisites, cidx, work,
                   faculty, degrees, requirement_groups>>

\* generate_faculty returns faculty and faculty_by_dept; the department drawn
\* is the first one, which leaves the other without faculty
MainFaculty ==
    /\ pc = "students_done"
    /\ \E depts \in [1..cfg.NUM_FACULTY -> { DEPARTMENTS[1] }] :
          LET fs == [i \in 1..cfg.NUM_FACULTY |->
                        [id |-> faculty_id(i - 1), department |-> depts[i]]] IN
          /\ faculty' = fs
          /\ work' = [work EXCEPT !.faculty_by_dept = grouped_by(fs, LAMBDA f : f.department)]
    /\ pc' = "faculty_done"
    /\ UNCHANGED <<cfg, now, terms, histVars, courses, prerequisites, cidx,
                   students, degrees, requirement_groups>>

\* the catalogue of the run: one course of each department, offered in Fall
\* and Spring, the second of a higher level than the first
MainShape ==
    << [department |-> DEPARTMENTS[1], level |-> 100],
       [department |-> DEPARTMENTS[2], level |-> 200] >>

MainCourseLists ==
    { [i \in 1..Len(MainShape) |->
          [id |-> CourseOf(i, MainShape).id,
           department |-> MainShape[i].department,
           level |-> MainShape[i].level,
           termAvailability |-> {"Fall", "Spring"},
           avgDifficulty |-> difficulty[i]]]
      : difficulty \in { << 3, 3 >>, << 3, 5 >> } }

\* generate_courses returns courses and dept_courses
MainCourses ==
    /\ pc = "faculty_done"
    /\ \E cs \in MainCourseLists :
          /\ courses' = cs
          /\ work' = [work EXCEPT !.dept_courses = grouped_by(cs, LAMBDA c : c.department)]
    /\ pc' = "courses_done"
    /\ UNCHANGED <<cfg, now, terms, histVars, prerequisites, cidx, entityVars>>

\* `available_courses = dept_courses[dept]` with no copy: the extend that
\* follows lengthens the department's own list.
dept_courses_after_NoCopy(by_dept, dept) ==
    [d \in DOMAIN by_dept \cup {dept} |->
        IF d = dept
        THEN (IF d \in DOMAIN by_dept THEN by_dept[d] ELSE << >>) \o
             Flatten([j \in 1..Len(DEPARTMENTS) |->
                        IF DEPARTMENTS[j] # dept /\ DEPARTMENTS[j] \in DOMAIN by_dept
                        THEN by_dept[DEPARTMENTS[j]] ELSE << >>])
        ELSE by_dept[d]]

\* dept_courses after `available_courses = dept_courses[dept].copy()` and the
\* extends of the copy: reading a defaultdict creates a missing key, the
\* lists themselves are left alone
dept_courses_after(by_dept, dept) ==
    [d \in DOMAIN by_dept \cup {dept} |->
        IF d \in DOMAIN by_dept THEN by_dept[d] ELSE << >>]

\* generate_degrees(dept_courses) for NUM_DEGREES = 1: the loop body runs
\* once, with random.randint(3, 7) drawn as 3
MainDegrees ==
    /\ pc = "courses_done"
    /\ cfg.NUM_DEGREES = 1
    /\ \E dept \in Range(DEPARTMENTS), dt \in DegreeTypeDraws, num_requirement_groups \in {3} :
          LET deg_id == degree_id(dt.prefix, dept, 0)
              cs == Flatten([j \in 1..Len(DEPARTMENTS) |->
                               IF DEPARTMENTS[j] \in DOMAIN work.dept_courses
                               THEN work.dept_courses[DEPARTMENTS[j]] ELSE << >>])
          IN /\ degrees' = << [id |-> deg_id, department |-> dept, type |-> dt.type] >>
             /\ requirement_groups' \in
                   degree_requirements(cs, dept, deg_id, num_requirement_groups)
             /\ work' = [work EXCEPT !.dept_courses = dept_courses_after(@, dept)]
    /\ pc' = "degrees_done"
    /\ UNCHANGED <<cfg, now, terms, histVars, courses, prerequisites, cidx, students, faculty>>

\* generate_prerequisites(courses)
MainPrerequisites ==
    /\ pc = "degrees_done"
    /\ prerequisites' \in
          PrerequisiteLists(courses, 1, cfg.MAX_PREREQS_PER_COURSE, EdgePayloads)
    /\ pc' = "prereq_done"
    /\ UNCHANGED <<cfg, now, terms, histVars, courses, cidx, work, entityVars>>

\* The second loop without its `potential["id"] not in followers` test.
leads_to_of_AnyNextLevel(cs, edges, course) ==
    LET out == SelectSeq(edges, LAMBDA e : e.source = course.id)
        followers == [i \in 1..Len(out) |-> out[i].target]
        same_dept_next_level ==
            SelectSeq(cs, LAMBDA c : /\ c.department = course.department
                                     /\ c.level = course.level + 100)
    IN { a \o b :
           a \in SubSequences([i \in 1..Len(followers) |->
                                  [source |-> course.id, target |-> followers[i]]]),
           b \in SubSequences([i \in 1..Len(same_dept_next_level) |->
                                  [source |-> course.id,
                                   target |-> same_dept_next_level[i].id]]) }

\* the LEADS_TO edges one course can append: an edge to each follower, then
\* to each course of its department one level up that is not a follower,
\* each kept or dropped by a draw
leads_to_of(cs, edges, course) ==
    LET out == SelectSeq(edges, LAMBDA e : e.source = course.id)
        followers == [i \in 1..Len(out) |-> out[i].target]
        same_dept_next_level ==
            SelectSeq(cs, LAMBDA c : /\ c.department = course.department
                                     /\ c.level = course.level + 100)
        potential == SelectSeq(same_dept_next_level, LAMBDA c : c.id \notin Range(followers))
    IN { a \o b :
           a \in SubSequences([i \in 1..Len(followers) |->
                                  [source |-> course.id, target |-> followers[i]]]),
           b \in SubSequences([i \in 1..Len(potential) |->
                                  [source |-> course.id, target |-> potential[i].id]]) }

generate_leads_to_relationships(cs, edges) ==
    Concatenations([i \in 1..Len(cs) |-> leads_to_of(cs, edges, cs[i])])

MainLeadsTo ==
    /\ pc = "prereq_done"
    /\ \E leads_to \in generate_leads_to_relationships(courses, prerequisites) :
          work' = [work EXCEPT !.leads_to = leads_to]
    /\ pc' = "leads_to_done"
    /\ UNCHANGED <<cfg, now, terms, histVars, courses, prerequisites, cidx, entityVars>>

\* list(dict.values()) of a dict keyed by (source, target): one edge for each
\* pair, at the place of the pair's first edge
RECURSIVE unique_pairs(_)
unique_pairs(edges) ==
    IF edges = << >> THEN << >>
    ELSE LET init == unique_pairs(SubSeq(edges, 1, Len(edges) - 1))
             last == edges[Len(edges)]
         IN IF last \in Range(init) THEN init ELSE Append(init, last)

\* content edges of one course: the other courses of its department, each
\* kept or dropped by a draw (the catalogue of the model carries no tags)
content_similarity_of(cs, course) ==
    LET others == SelectSeq(cs, LAMBDA c : c.department = course.department /\ c.id # course.id)
    IN SubSequences([i \in 1..Len(others) |-> [source |-> course.id, target |-> others[i].id]])

\* difficulty edges of one course: over random.sample(courses, min(10,
\* len(courses))), the other courses at most one difficulty point away
difficulty_similarity_of(cs, course) ==
    { LET near == SelectSeq(order, LAMBDA c : /\ c.id # course.id
                                              /\ Abs(course.avgDifficulty - c.avgDifficulty) <= 1)
      IN [i \in 1..Len(near) |-> [source |-> course.id, target |-> near[i].id]]
      : order \in sample(cs, Min(10, Len(cs))) }

\* generate_course_similarity(courses)
MainCourseSimilarity ==
    /\ pc = "leads_to_done"
    /\ \E content \in Concatenations([i \in 1..Len(courses) |->
                                          content_similarity_of(courses, courses[i])]),
          difficulty \in Concatenations([i \in 1..Len(courses) |->
                                          difficulty_similarity_of(courses, courses[i])]) :
          work' = [work EXCEPT !.similarity_content = unique_pairs(content),
                               !.similarity_difficulty = unique_pairs(difficulty)]
    /\ pc' = "student_degree"
    /\ UNCHANGED <<cfg, now, terms, histVars, courses, prerequisites, cidx, entityVars>>

\* the TEACHES edges one course can append
teaching_of(by_dept, course) ==
    LET everyone == Flatten([j \in 1..Len(DEPARTMENTS) |->
                               IF DEPARTMENTS[j] \in DOMAIN by_dept
                               THEN by_dept[DEPARTMENTS[j]] ELSE << >>])
        own == IF course.department \in DOMAIN by_dept
               THEN by_dept[course.department] ELSE << >>
        pools == IF own # << >> THEN { own } ELSE sample(everyone, Min(3, Len(everyone)))
        offered == SelectSeq(<< "Fall", "Spring", "Summer" >>,
                             LAMBDA t : t \in course.termAvailability)
        edges(f) == { IF taught_terms = << >> THEN << >>
                      ELSE << [facultyId |-> f.id, courseId |-> course.id,
                               terms |-> taught_terms] >>
                      : taught_terms \in SubSequences(offered) }
    IN UNION { UNION { UNION { Concatenations([i \in 1..Len(selected) |-> edges(selected[i])])
                               : selected \in sample(potential_faculty, num_faculty) }
                       : num_faculty \in 1..Min(3, Len(potential_faculty)) }
               : potential_faculty \in pools }

\* generate_teaching_relationships(faculty_by_dept, courses)
MainTeaching ==
    /\ pc = "student_degree_done"
    /\ \E teaching \in Concatenations([i \in 1..Len(courses) |->
                                           teaching_of(work.faculty_by_dept, courses[i])]) :
          work' = [work EXCEPT !.teaching = teaching]
    /\ pc' = "history"
    /\ UNCHANGED <<cfg, now, terms, histVars, courses, prerequisites, cidx, entityVars>>

\* `for student in students:` of generate_student_course_history, over the
\* students main hands it
MainHistStudent ==
    /\ pc = "history"
    /\ tpos = Len(student_terms)
    /\ sidx < Len(students)
    /\ student' = students[sidx + 1]
    /\ student_terms' = StudentTerms(terms, now, students[sidx + 1].enrollmentDate,
                                     cfg.TERMS_TO_GENERATE)
    /\ sidx' = sidx + 1
    /\ tpos' = 0
    /\ taken_courses' = InitialTaken(taken_courses)
    /\ last_term' = Idle
    /\ UNCHANGED <<pc, cfg, now, terms, completed_courses, enrolled_courses,
                   courses, prerequisites, cidx, work, entityVars>>

\* the ordered pairs of distinct students of the same learning style, each
\* student's partners in the order random.sample returns them
learning_style_pairs(sts) ==
    Concatenations([i \in 1..Len(sts) |->
        LET same_style == SelectSeq(sts, LAMBDA o : o.learningStyle = sts[i].learningStyle)
        IN { LET others == SelectSeq(order, LAMBDA o : o.id # sts[i].id)
             IN [k \in 1..Len(others) |-> [source |-> sts[i].id, target |-> others[k].id]]
             : order \in sample(same_style, Min(20, Len(same_style))) }])

\* the pairs of students with three or more completed courses in common,
\* taken for every fifth student
performance_pairs(sts, completed) ==
    LET taken(st) == { completed[k].courseId :
                         k \in { n \in 1..Len(completed) : completed[n].studentId = st.id } }
    IN Flatten([i \in 1..Len(sts) |->
         IF (i - 1) % 5 = 0
         THEN LET similar == SelectSeq(sts, LAMBDA o :
                                /\ o.id # sts[i].id
                                /\ Cardinality(taken(sts[i]) \cap taken(o)) >= 3)
              IN [k \in 1..Len(similar) |-> [source |-> sts[i].id, target |-> similar[k].id]]
         ELSE << >>])

\* generate_student_similarity(students, completed_courses)
MainStudentSimilarity ==
    /\ pc = "history_done"
    /\ \E pairs \in learning_style_pairs(students) :
          work' = [work EXCEPT !.learning_style_similarity = pairs,
                               !.performance_similarity =
                                   performance_pairs(students, completed_courses)]
    /\ pc' = "student_similarity_done"
    /\ UNCHANGED <<cfg, now, terms, histVars, courses, prerequisites, cidx, entityVars>>

\* export_to_cypher, export_to_csv and the files written after them: the
\* collections are read and written out
MainExport ==
    /\ pc = "student_similarity_done"
    /\ work' = [work EXCEPT !.exported = TRUE]
    /\ pc' = "exported"
    /\ UNCHANGED <<cfg, now, terms, histVars, courses, prerequisites, cidx, entityVars>>

MainNext ==
    \/ GenerateTerms \/ MainStudents \/ MainFaculty \/ MainCourses \/ MainDegrees
    \/ MainPrerequisites \/ MainLeadsTo \/ MainCourseSimilarity
    \/ StudentDegreeStep \/ StudentDegreeRaise \/ StudentDegreeReturn
    \/ MainTeaching \/ MainHistStudent \/ HistTerm \/ HistReturn
    \/ MainStudentSimilarity \/ MainExport

SpecMain == MainInit /\ [][MainNext]_vars

\* the values pc takes in a run of main that raises nothing, in order
MainOrder ==
    << "terms", "terms_done", "students_done", "faculty_done", "courses_done",
       "degrees_done", "prereq_done", "leads_to_done", "student_degree",
       "student_degree_done", "history", "history_done", "student_similarity_done",
       "exported" >>

Position(p) == CHOOSE i \in 1..Len(MainOrder) : MainOrder[i] = p

\* at position `at` of the run, the step that ends in `done` has returned
Returned(at, done) == Position(done) <= at

\* C20: once a step of main has returned its entities or edges, no later
\* step adds to, removes from or modifies them; in particular students,
\* courses, terms, prerequisites and the per-department course map are
\* unchanged by degree assembly, history simulation, similarity building
\* and export.  A step that raises ends the run.
SinglePassImmutability ==
    [][ pc' # "raised" =>
          LET at == Position(pc) IN
          /\ Returned(at, "terms_done") => terms' = terms
          /\ Returned(at, "students_done") => students' = students
          /\ Returned(at, "faculty_done") =>
                faculty' = faculty /\ work'.faculty_by_dept = work.faculty_by_dept
          /\ Returned(at, "courses_done") =>
                courses' = courses /\ work'.dept_courses = work.dept_courses
          /\ Returned(at, "degrees_done") =>
                degrees' = degrees /\ requirement_groups' = requirement_groups
          /\ Returned(at, "prereq_done") => prerequisites' = prerequisites
          /\ Returned(at, "leads_to_done") => work'.leads_to = work.leads_to
          /\ Returned(at, "student_degree") =>
                /\ work'.similarity_content = work.similarity_content
                /\ work'.similarity_difficulty = work.similarity_difficulty
          /\ Returned(at, "student_degree_done") => work'.student_degree = work.student_degree
          /\ Returned(at, "history") => work'.teaching = work.teaching
          /\ Returned(at, "history_done") =>
                /\ completed_courses' = completed_courses
                /\ enrolled_courses' = enrolled_courses
          /\ Returned(at, "student_similarity_done") =>
                /\ work'.learning_style_similarity = work.learning_style_similarity
                /\ work'.performance_similarity = work.performance_similarity
      ]_vars

\* A finished run whose collections are all in place: a degree with its
\* requirement groups, a prerequisite edge, a teaching edge and records of
\* both kinds.
SinglePassImmutabilityWitness ==
    /\ pc = "exported" /\ work.exported
    /\ Len(students) = 1 /\ Len(courses) = 2 /\ Len(terms) = 3
    /\ DOMAIN work.dept_courses = Range(DEPARTMENTS)
    /\ Len(requirement_groups) = 3
    /\ prerequisites # << >> /\ work.leads_to # << >>
    /\ work.similarity_difficulty # << >>
    /\ work.student_degree # << >> /\ work.teaching # << >>
    /\ completed_courses # << >> /\ enrolled_courses # << >>

(***************************************************************************)
(* Fan-in of the prerequisite relation.                                    *)
(***************************************************************************)
\* the PREREQUISITE_FOR edges that point at one course, in the order appended
IncomingPrereqs(course_id) ==
    SelectSeq(prerequisites, LAMBDA e : e.target = course_id)

\* the courses of a strictly lower level, of any department
LowerLevelCourses(course) ==
    SelectSeq(courses, LAMBDA c : c.level < course.level)

CatalogueLevels ==
    { << 100, 200, 300, 400, 700 >>, << 200, 100, 100, 600, 100 >> }

\* the course lists generate_courses returns for NUM_COURSES = 1
PipelineCatalogues ==
    LET n == dept_course_count(1)
    IN { [i \in 1..(n * Len(DEPARTMENTS)) |->
            CourseOf(i, [k \in 1..(n * Len(DEPARTMENTS)) |->
                           [department |-> DEPARTMENTS[((k - 1) \div n) + 1],
                            level      |-> lv[((k - 1) \div n) + 1][((k - 1) % n) + 1]]])]
         : lv \in { l \in [1..Len(DEPARTMENTS) -> CatalogueLevels] : l[1] # l[2] } }

\* two of the lists random.sample(population, k) can return: the first k
\* elements in order, and the last k in reverse order
sample_draw(population, k, from_end) ==
    IF from_end
    THEN [i \in 1..k |-> population[Len(population) + 1 - i]]
    ELSE SubSeq(population, 1, k)

sample_draws(population, k) ==
    { sample_draw(population, k, from_end) : from_end \in BOOLEAN }

\* the draws of one iteration of the inner loop: random.randint(3, 8) at
\* either end, the sample from either end of the pool, and the lowest or the
\* highest minimum random.randint(1, max(1, len(req_courses) - 1)) can give
GroupDraws ==
    { [num_req_courses |-> 3, from_end |-> FALSE, highest |-> FALSE],
      [num_req_courses |-> 3, from_end |-> TRUE,  highest |-> TRUE],
      [num_req_courses |-> 8, from_end |-> FALSE, highest |-> TRUE],
      [num_req_courses |-> 8, from_end |-> TRUE,  highest |-> FALSE] }

\* the courses appended for the departments DEPARTMENTS[k..] other than the
\* degree's own: a sample of at most 5 of each (random.sample(DEPARTMENTS, 3)
\* of a two-department list holds both departments)
RECURSIVE pipeline_extensions(_, _, _)
pipeline_extensions(cs, dept, k) ==
    IF k > Len(DEPARTMENTS) THEN { << >> }
    ELSE LET pool == dept_courses(cs, DEPARTMENTS[k])
             own == IF DEPARTMENTS[k] # dept
                    THEN sample_draws(pool, Min(5, Len(pool)))
                    ELSE { << >> }
         IN { a \o rest : a \in own, rest \in pipeline_extensions(cs, dept, k + 1) }

\* available_courses = dept_courses[dept].copy(), then extended
pipeline_available_courses(cs, dept) ==
    { dept_courses(cs, dept) \o ext : ext \in pipeline_extensions(cs, dept, 1) }

\* the positions of sorted_by_level the walk can append: none, the first
\* target_core_courses, the last target_core_courses
pipeline_core_course_lists(available) ==
    LET target_core_courses == Min(20, Len(available) \div 2)
        ordered == sorted_by_level(available)
        n == Len(ordered)
    IN { PickAt(ordered, picked, 1) :
            picked \in { {}, 1..target_core_courses, (n - target_core_courses + 1)..n } }

\* the degree type and the requirement type the pipeline runs draw
PipelineDegreeTypeDraws == { dt \in degree_types : dt.prefix = "MS" }

PipelineReqTypeDraws == { rt \in req_types : rt.type = "Concentration" }

PipelineDegreesInit ==
    /\ pc = "degrees"
    /\ cfg = [NUM_COURSES |-> 1, NUM_DEGREES |-> 1]
    /\ now = Date(Year0, 1, 1) /\ terms = << >> /\ NoHistory
    /\ courses \in PipelineCatalogues
    /\ prerequisites = << >> /\ cidx = 0 /\ work = Idle /\ NoEntities

\* The body of `for i in range(NUM_DEGREES)` up to the inner loop: the degree
\* and its core group are appended.
PipelineDegreeCore ==
    /\ pc = "degrees"
    /\ work = Idle
    /\ Len(degrees) < cfg.NUM_DEGREES
    /\ \E dept \in Range(DEPARTMENTS), dt \in PipelineDegreeTypeDraws,
          num_requirement_groups \in 3..7 :
          LET deg_id == degree_id(dt.prefix, dept, Len(degrees)) IN
          \E available \in pipeline_available_courses(courses, dept) :
          \E core_courses \in pipeline_core_course_lists(available) :
             /\ degrees' = Append(degrees, [id |-> deg_id, department |-> dept, type |-> dt.type])
             /\ requirement_groups' =
                   Append(requirement_groups, core_requirement(deg_id, core_courses))
             /\ work' = [degree_id |-> deg_id,
                         num_requirement_groups |-> num_requirement_groups,
                         remaining_courses |-> remaining_courses(available, core_courses),
                         j |-> 0]
    /\ UNCHANGED <<pc, cfg, now, terms, histVars, courses, prerequisites, cidx,
                   students, faculty>>

\* One iteration of `for j in range(num_requirement_groups - 1)`; after the
\* last one the locals of the degree are dropped.
PipelineDegreeGroup ==
    /\ pc = "degrees"
    /\ work # Idle
    /\ work.j < work.num_requirement_groups - 1
    /\ \E rt \in PipelineReqTypeDraws, draw \in GroupDraws :
          LET req_courses ==
                 IF work.remaining_courses # << >>
                 THEN sample_draw(work.remaining_courses,
                                  Min(draw.num_req_courses, Len(work.remaining_courses)),
                                  draw.from_end)
                 ELSE << >>
              min_courses == IF draw.highest THEN Max(1, Len(req_courses) - 1) ELSE 1
          IN requirement_groups' =
                Append(requirement_groups,
                       req_requirement(work.degree_id, rt, work.j, req_courses, min_courses))
    /\ work' = IF work.j + 1 < work.num_requirement_groups - 1
               THEN [work EXCEPT !.j = @ + 1]
               ELSE Idle
    /\ UNCHANGED <<pc, cfg, now, terms, histVars, courses, prerequisites, cidx,
                   students, faculty, degrees>>

PipelineDegreesReturn ==
    /\ pc = "degrees"
    /\ work = Idle
    /\ Len(degrees) >= cfg.NUM_DEGREES
    /\ pc' = "degrees_done"
    /\ UNCHANGED <<cfg, now, terms, histVars, courses, prerequisites, cidx, work, entityVars>>

PipelineDegreesNext ==
    PipelineDegreeCore \/ PipelineDegreeGroup \/ PipelineDegreesReturn

SpecPipelineDegrees == PipelineDegreesInit /\ [][PipelineDegreesNext]_vars

\* the groups of a degree other than its core group, in the order appended
NonCoreGroups(deg_id) ==
    SelectSeq(requirement_groups,
              LAMBDA g : g.degreeId = deg_id /\ g.id # core_req_id(deg_id))

CoreGroup(deg_id) ==
    CHOOSE g \in Range(requirement_groups) : g.id = core_req_id(deg_id)

\* C22: in a degree assembled from the catalogue of generate_courses (at least
\* 5 courses in every department) there are between 2 and 6 non-core
\* requirement groups, each takes its courses from the pool left after the
\* core selection, so it shares no course with the core group, and each has
\* minimumCourses strictly below the length of its course list.
PipelineNonCoreGroups ==
    /\ pc = "degrees_done" =>
          \A d \in 1..Len(degrees) :
              Len(NonCoreGroups(degrees[d].id)) \in 2..6
    /\ \A d \in 1..Len(degrees) :
          \A k \in 1..Len(NonCoreGroups(degrees[d].id)) :
              LET g == NonCoreGroups(degrees[d].id)[k] IN
              /\ Range(g.courses) \cap Range(CoreGroup(degrees[d].id).courses) = {}
              /\ g.minimumCourses < Len(g.courses)
    /\ work # Idle =>
          \A k \in 1..Len(NonCoreGroups(work.degree_id)) :
              Range(NonCoreGroups(work.degree_id)[k].courses)
                 \subseteq Ids(work.remaining_courses)

\* a finished degree with a full core group and six other groups, one of them
\* cut to the five courses left in the pool with four of them required, one
\* with three courses
PipelineNonCoreGroupsWitness ==
    /\ pc = "degrees_done"
    /\ \E d \in 1..Len(degrees) :
          LET groups == NonCoreGroups(degrees[d].id) IN
          /\ Len(groups) = 6
          /\ Len(CoreGroup(degrees[d].id).courses) = 5
          /\ \E k \in 1..6 : Len(groups[k].courses) = 5 /\ groups[k].minimumCourses = 4
          /\ \E k \in 1..6 : Len(groups[k].courses) = 3 /\ groups[k].minimumCourses = 1

(***************************************************************************)
(* Specification of the course-sequence builder: generate_prerequisites    *)
(* runs over a list of three courses, then generate_leads_to_relationships *)
(* over the courses and the edges it returned.                             *)
(***************************************************************************)
LeadsToInit ==
    /\ pc = "prereq"
    /\ cfg = [MAX_PREREQS_PER_COURSE |-> MAX_PREREQS_PER_COURSE]
    /\ now = Date(Year0, 1, 1) /\ terms = << >> /\ NoHistory
    /\ courses \in CourseLists(3)
    /\ prerequisites = << >> /\ cidx = 1 /\ work = MainLocals /\ NoEntities

LeadsToNext == PrereqCourse \/ PrereqReturn \/ MainLeadsTo

SpecLeadsTo == LeadsToInit /\ [][LeadsToNext]_vars

\* TRUE iff a PREREQUISITE_FOR edge runs from source to target
IsPrereqPair(source, target) ==
    \E p \in Range(prerequisites) : p.source = source /\ p.target = target

\* C23: every LEADS_TO edge either repeats the (source, target) of a
\* PREREQUISITE_FOR edge, or joins two courses of one department with the
\* target one level band (100) above the source and no PREREQUISITE_FOR edge
\* between them; either way the target's level is above the source's, and no
\* (source, target) pair occurs twice in the list.
LeadsToStructure ==
    LET leads_to == work.leads_to IN
    /\ \A i \in 1..Len(leads_to) :
          LET e == leads_to[i]
              s == CourseById(courses, e.source)
              t == CourseById(courses, e.target)
          IN /\ \/ IsPrereqPair(e.source, e.target)
                \/ /\ s.department = t.department
                   /\ t.level = s.level + 100
                   /\ ~ IsPrereqPair(e.source, e.target)
             /\ t.level > s.level
    /\ \A i, j \in 1..Len(leads_to) :
          i # j => ~ (/\ leads_to[i].source = leads_to[j].source
                      /\ leads_to[i].target = leads_to[j].target)

\* a returned list with an edge that follows a prerequisite across
\* departments and an edge to the next level that follows none
LeadsToStructureWitness ==
    /\ pc = "leads_to_done"
    /\ \E i, j \in 1..Len(work.leads_to) :
          LET e == work.leads_to[i]
              f == work.leads_to[j]
          IN /\ IsPrereqPair(e.source, e.target)
             /\ CourseById(courses, e.source).department
                   # CourseById(courses, e.target).department
             /\ ~ IsPrereqPair(f.source, f.target)

(***************************************************************************)
(* Specification of generate_student_similarity.  Its arguments are a      *)
(* cohort and the COMPLETED records of the cohort; one step is one         *)
(* iteration of `for i, student in enumerate(students)`, which appends the *)
(* learning-style edges of the student and, for every fifth student, the   *)
(* performance edges.  `work` holds the two lists being built and the      *)
(* draws of the run; sidx counts the students processed.                   *)
(***************************************************************************)
\* f"{letters}{numbers}" for the i-th student of a cohort
CohortStudentId(i) == generate_campus_id("AB", ToString(10000 + i))

\* the cohorts: every student of one learning style, or every third of another;
\* pace, course load and instruction mode vary along the list
Cohort(n, mixed) ==
    [i \in 1..n |->
        [id |-> CohortStudentId(i),
         learningStyle |-> IF mixed /\ i % 3 = 0 THEN "Auditory" ELSE "Visual",
         preferredPace |-> IF i % 2 = 0 THEN "Standard" ELSE "Part-time",
         preferredCourseLoad |-> 2 + (i % 4),
         preferredInstructionMode |-> IF i % 4 < 2 THEN "In-person" ELSE "Online"]]

\* four courses without prerequisites, offered in every term
CohortCourses ==
    [k \in 1..4 |-> CourseOf(k, [j \in 1..4 |-> [department |-> DEPARTMENTS[1], level |-> 100]])]

\* what a student of the cohort has completed: positions of CohortCourses
CompletedSets == { {1, 2, 3}, {1, 2}, {2, 3, 4} }

CohortGrades == << "A", "C+", "F" >>

\* the COMPLETED records of a cohort, student by student: the student at list
\* position i has completed the courses plan[i % 3]
CohortCompleted(sts, plan) ==
    Flatten([i \in 1..Len(sts) |->
        LET mine == SelectSeq([k \in 1..Len(CohortCourses) |-> k],
                              LAMBDA k : k \in plan[i % 3])
        IN [m \in 1..Len(mine) |->
              [studentId |-> sts[i].id, courseId |-> CohortCourses[mine[m]].id,
               grade |-> CohortGrades[((i + mine[m]) % 3) + 1],
               difficulty |-> 1 + mine[m]]]])

\* the ENROLLED_IN records of a cohort: a student who has not completed the
\* third course is enrolled in it
CohortEnrolled(sts, plan) ==
    Flatten([i \in 1..Len(sts) |->
        IF 3 \notin plan[i % 3]
        THEN << [studentId |-> sts[i].id, courseId |-> CohortCourses[3].id] >>
        ELSE << >>])

\* by_style[student["learningStyle"]]
same_style_students(sts, st) ==
    SelectSeq(sts, LAMBDA o : o.learningStyle = st.learningStyle)

\* num_similar = len(same_style_students), without the cap.
num_similar_Uncapped(same_style) ==
    Len(same_style)

\* num_similar = min(20, len(same_style_students))
num_similar(same_style) ==
    Min(20, Len(same_style))

\* the SIMILAR_LEARNING_STYLE edges one student's iteration appends
learning_style_edges(sts, st, from_end, noise) ==
    LET same_style == same_style_students(sts, st)
        similar_students == sample_draw(same_style, num_similar(same_style), from_end)
        others == SelectSeq(similar_students, LAMBDA o : o.id # st.id)
    IN [k \in 1..Len(others) |->
          [sourceId |-> st.id, targetId |-> others[k].id,
           similarity |->
              learning_style_score(
                 others[k].preferredPace = st.preferredPace,
                 Abs(others[k].preferredCourseLoad - st.preferredCourseLoad),
                 others[k].preferredInstructionMode = st.preferredInstructionMode,
                 noise)]]

\* student_courses.get(id, []), and the dict {c["courseId"]: c ...} built
\* from it: the last record of a course wins
student_records(completed, student_id) ==
    SelectSeq(completed, LAMBDA c : c.studentId = student_id)

taken_keys(records) == { records[k].courseId : k \in 1..Len(records) }

taken_record(records, course_id) ==
    records[CHOOSE k \in 1..Len(records) :
               /\ records[k].courseId = course_id
               /\ \A m \in (k + 1)..Len(records) : records[m].courseId # course_id]

\* the keys of the dict, in insertion order
taken_list(records) ==
    LET ids == [k \in 1..Len(records) |-> records[k].courseId]
        firsts == SelectSeq([k \in 1..Len(ids) |-> k],
                            LAMBDA k : \A m \in 1..(k - 1) : ids[m] # ids[k])
    IN [k \in 1..Len(firsts) |-> ids[firsts[k]]]

\* `if i % 5 == 0` without the `other_student["id"] == student["id"]` test.
performance_others_WithSelf(sts, st) ==
    sts

\* the students the inner loop does not skip
performance_others(sts, st) ==
    SelectSeq(sts, LAMBDA o : o.id # st.id)

\* the SIMILAR_PERFORMANCE edges one student's iteration can append; i is the
\* enumerate index, which starts at 0
performance_edges(sts, completed, i) ==
    IF i % 5 = 0
    THEN LET st == sts[i + 1]
             student_taken == student_records(completed, st.id)
             common(o) == taken_keys(student_taken)
                             \cap taken_keys(student_records(completed, o.id))
             similar == SelectSeq(performance_others(sts, st),
                                  LAMBDA o : Cardinality(common(o)) >= 3)
             scores(o) ==
                 LET other_taken == student_records(completed, o.id)
                     shared == SelectSeq(taken_list(student_taken),
                                         LAMBDA c : c \in common(o))
                     grade_diffs_of ==
                         [k \in 1..Len(shared) |->
                             Abs(grade_map(taken_record(student_taken, shared[k]).grade)
                                 - grade_map(taken_record(other_taken, shared[k]).grade))]
                     difficulty_diffs_of ==
                         [k \in 1..Len(shared) |->
                             Abs(taken_record(student_taken, shared[k]).difficulty
                                 - taken_record(other_taken, shared[k]).difficulty)]
                 IN overall_similarity(Len(shared), sum(grade_diffs_of),
                                       sum(difficulty_diffs_of))
         IN Concatenations([k \in 1..Len(similar) |->
               { << [sourceId |-> st.id, targetId |-> similar[k].id,
                     similarity |-> score, courses |-> common(similar[k])] >>
                 : score \in scores(similar[k]) }])
    ELSE { << >> }

\* the draws of a run: the end of by_style the samples are taken from, at
\* even and at odd positions of the list, and the noise of the scores
SimilarityDraws ==
    [from_end : [0..1 -> BOOLEAN], noise : { 0 - 10, 0, 10 }]

\* the runs of the model: every plan of completed courses under one choice of
\* draws, and every choice of draws under one plan
SimilarityRuns ==
    { r \in [plan : [0..2 -> CompletedSets], draws : SimilarityDraws] :
        \/ r.draws = [from_end |-> [p \in 0..1 |-> p = 1], noise |-> 10]
        \/ r.plan = [p \in 0..2 |-> {1, 2, 3}] }

StudentSimilarityInit ==
    /\ pc = "student_similarity"
    /\ now = Date(Year0, 1, 1) /\ terms = << >>
    /\ student = Idle /\ sidx = 0 /\ student_terms = << >> /\ tpos = 0
    /\ taken_courses = {} /\ last_term = << >>
    /\ \E n \in { 1, 6, 22 }, mixed \in BOOLEAN : students = Cohort(n, mixed)
    /\ cfg = [NUM_STUDENTS |-> Len(students)]
    /\ courses = CohortCourses /\ prerequisites = << >> /\ cidx = 0
    /\ faculty = << >> /\ degrees = << >> /\ requirement_groups = << >>
    /\ \E run \in SimilarityRuns :
          /\ completed_courses = CohortCompleted(students, run.plan)
          /\ enrolled_courses = CohortEnrolled(students, run.plan)
          /\ work = [learning_style_similarity |-> << >>,
                     performance_similarity |-> << >>, draws |-> run.draws]

\* One iteration of `for i, student in enumerate(students)`.
StudentSimilarityStep ==
    /\ pc = "student_similarity"
    /\ sidx < Len(students)
    /\ \E edges \in performance_edges(students, completed_courses, sidx) :
          work' = [work EXCEPT
                     !.learning_style_similarity =
                         @ \o learning_style_edges(students, students[sidx + 1],
                                                   work.draws.from_end[sidx % 2],
                                                   work.draws.noise),
                     !.performance_similarity = @ \o edges]
    /\ sidx' = sidx + 1
    /\ UNCHANGED <<pc, cfg, now, terms, student, student_terms, tpos, taken_courses,
                   completed_courses, enrolled_courses, last_term, courses,
                   prerequisites, cidx, entityVars>>

StudentSimilarityReturn ==
    /\ pc = "student_similarity"
    /\ sidx >= Len(students)
    /\ pc' = "student_similarity_done"
    /\ UNCHANGED <<cfg, now, terms, histVars, courses, prerequisites, cidx, work, entityVars>>

StudentSimilarityNext == StudentSimilarityStep \/ StudentSimilarityReturn

SpecStudentSimilarity == StudentSimilarityInit /\ [][StudentSimilarityNext]_vars

\* the SIMILAR_LEARNING_STYLE edges that leave one student
OutgoingLearningStyle(student_id) ==
    SelectSeq(work.learning_style_similarity, LAMBDA e : e.sourceId = student_id)

StudentOf(student_id) == CHOOSE s \in Range(students) : s.id = student_id

\* C24: every student has at most 20 outgoing SIMILAR_LEARNING_STYLE edges,
\* each to a different student, of the source's own learning style, never to
\* the source itself, with a score inside [0.1, 1.0] (hundredths: 10..100).
LearningStyleFanOut ==
    \A i \in 1..Len(students) :
        LET out == OutgoingLearningStyle(students[i].id)
            targets == { out[a].targetId : a \in 1..Len(out) }
        IN /\ Len(out) <= 20
           /\ Cardinality(targets) = Len(out)
           /\ students[i].id \notin targets
           /\ \A t \in targets : StudentOf(t).learningStyle = students[i].learningStyle
           /\ \A a \in 1..Len(out) : out[a].similarity \in 10..100

\* a finished run over more than 20 students of one style, in which one
\* student has the full 20 edges and a student drawn into its own sample 19
LearningStyleFanOutWitness ==
    /\ pc = "student_similarity_done"
    /\ \E i, j \in 1..Len(students) :
          /\ Len(same_style_students(students, students[i])) > 20
          /\ Len(OutgoingLearningStyle(students[i].id)) = 20
          /\ Len(OutgoingLearningStyle(students[j].id)) = 19
          /\ \E a \in 1..20 : OutgoingLearningStyle(students[i].id)[a].similarity = 100

\* the courses for which both students have a COMPLETED record
CompletedByBoth(a, b) ==
    LET done(id) == { completed_courses[k].courseId :
                        k \in { n \in 1..Len(completed_courses) :
                                  completed_courses[n].studentId = id } }
    IN done(a) \cap done(b)

EnrolledByBoth(a, b) ==
    LET current(id) == { enrolled_courses[k].courseId :
                           k \in { n \in 1..Len(enrolled_courses) :
                                     enrolled_courses[n].studentId = id } }
    IN current(a) \cap current(b)

\* C25: a SIMILAR_PERFORMANCE edge from student A to student B exists if and
\* only if A's index in the student list is a multiple of 5, B is another
\* student and the two share at least 3 courses with COMPLETED records; the
\* edge carries exactly that shared set, and ENROLLED_IN records play no part.
PerformanceSimilarityPairs ==
    LET done == [i \in 1..Len(students) |->
                    { completed_courses[k].courseId :
                        k \in { n \in 1..Len(completed_courses) :
                                  completed_courses[n].studentId = students[i].id } }]
        position(id) == CHOOSE i \in 1..Len(students) : students[i].id = id
        edges == work.performance_similarity
    IN /\ \A k \in 1..Len(edges) :
             LET a == position(edges[k].sourceId)
                 b == position(edges[k].targetId)
             IN /\ (a - 1) % 5 = 0
                /\ a # b
                /\ Cardinality(done[a] \cap done[b]) >= 3
                /\ edges[k].courses = done[a] \cap done[b]
       /\ \A a \in { i \in 1..sidx : (i - 1) % 5 = 0 } :
             \A b \in 1..Len(students) :
                (a # b /\ Cardinality(done[a] \cap done[b]) >= 3)
                   => \E k \in 1..Len(edges) :
                         /\ edges[k].sourceId = students[a].id
                         /\ edges[k].targetId = students[b].id

\* a finished run with an edge from the sixth student, no edge between two
\* students who share two completed courses and one they are enrolled in, and
\* none from the second student, who shares three with another
PerformanceSimilarityPairsWitness ==
    /\ pc = "student_similarity_done"
    /\ \E e \in Range(work.performance_similarity) :
          e.sourceId = students[6].id /\ Cardinality(e.courses) = 3
    /\ \E b \in 2..Len(students) :
          /\ Cardinality(CompletedByBoth(students[1].id, students[b].id)) = 2
          /\ EnrolledByBoth(students[1].id, students[b].id) # {}
          /\ \A e \in Range(work.performance_similarity) :
                ~ (e.sourceId = students[1].id /\ e.targetId = students[b].id)
    /\ \E b \in 1..Len(students) :
          /\ b # 2
          /\ Cardinality(CompletedByBoth(students[2].id, students[b].id)) >= 3

(***************************************************************************)
(* Specification of generate_course_similarity with the payloads of the    *)
(* edges.  One step is one iteration of the second `for course in          *)
(* courses`, which appends candidates to similarity_content and            *)
(* similarity_difficulty; the return converts both lists to dicts keyed by *)
(* (source, target) and back.  `work` holds the two candidate lists and,   *)
(* after the return, the two lists returned.                               *)
(***************************************************************************)
\* tags = [dept, f"Level-{level//100}"]; the course names of the model hold
\* no topic keyword
course_tags(course) ==
    << course.department, "Level-" \o ToString(course.level \div 100) >>

\* the catalogues: two courses of one department at one level and a third of
\* the other department, or one course of each department at one level
SimilarityCatalogues ==
    { [i \in 1..Len(shape) |->
          [id |-> CourseOf(i, shape).id, department |-> shape[i].department,
           level |-> shape[i].level, avgDifficulty |-> difficulty[i],
           tags |-> course_tags(shape[i])]]
      : shape \in { << [department |-> DEPARTMENTS[1], level |-> 100],
                       [department |-> DEPARTMENTS[1], level |-> 100],
                       [department |-> DEPARTMENTS[2], level |-> 200] >>,
                    << [department |-> DEPARTMENTS[1], level |-> 100],
                       [department |-> DEPARTMENTS[2], level |-> 100] >> },
        difficulty \in { << 3, 3, 5 >>, << 3, 4, 5 >>, << 2, 5, 3 >> } }

\* by_tag[tag]
by_tag(cs, tag) == SelectSeq(cs, LAMBDA c : tag \in Range(c.tags))

\* shared_tag_courses: by_tag[tag] for every tag of the course, one after the
\* other, so a course that shares two tags is listed twice
shared_tag_courses(cs, course) ==
    Flatten([t \in 1..Len(course.tags) |-> by_tag(cs, course.tags[t])])

\* the candidates a loop over `pool` can append: none for the course itself,
\* else none or one with any of the scores
candidates_over(pool, course, scores(_)) ==
    Concatenations([k \in 1..Len(pool) |->
        IF pool[k].id # course.id
        THEN { << >> } \cup
             { << [source |-> course.id, target |-> pool[k].id, similarity |-> s] >>
               : s \in scores(pool[k]) }
        ELSE { << >> }])

\* the content candidates of one iteration: the same-department loop, then
\* the shared-tag loop
content_candidates(cs, course) ==
    LET same_dept_courses == SelectSeq(cs, LAMBDA c : c.department = course.department)
        dept_scores(similar) == { 10, 80 }
        tag_scores(similar) ==
            { tag_content_score(Cardinality(Range(course.tags) \cap Range(similar.tags)), noise)
              : noise \in { 0, 20 } }
    IN { a \o b : a \in candidates_over(same_dept_courses, course, dept_scores),
                  b \in candidates_over(shared_tag_courses(cs, course), course, tag_scores) }

\* the difficulty candidates of one iteration, over a sample of
\* min(10, len(courses)) courses
difficulty_candidates(cs, course) ==
    { LET near == SelectSeq(order, LAMBDA c :
                     /\ c.id # course.id
                     /\ difficulty_similarity_scores(course.avgDifficulty, c.avgDifficulty) # {})
      IN [k \in 1..Len(near) |->
            [source |-> course.id, target |-> near[k].id,
             similarity |-> CHOOSE s \in difficulty_similarity_scores(
                                            course.avgDifficulty, near[k].avgDifficulty) : TRUE]]
      : order \in sample_draws(cs, Min(10, Len(cs))) }

\* list({(s["source"], s["target"]): s for s in edges}.values()) with the
\* value of a key left at the first candidate.
dict_values_FirstWins(edges) ==
    LET same(a, b) == edges[a].source = edges[b].source /\ edges[a].target = edges[b].target
        firsts == SelectSeq([k \in 1..Len(edges) |-> k],
                            LAMBDA k : \A m \in 1..(k - 1) : ~ same(m, k))
    IN [k \in 1..Len(firsts) |-> edges[firsts[k]]]

\* list({(s["source"], s["target"]): s for s in edges}.values()): a key keeps
\* the place of its first candidate and the value of its last
dict_values(edges) ==
    LET same(a, b) == edges[a].source = edges[b].source /\ edges[a].target = edges[b].target
        firsts == SelectSeq([k \in 1..Len(edges) |-> k],
                            LAMBDA k : \A m \in 1..(k - 1) : ~ same(m, k))
        last(k) == CHOOSE m \in k..Len(edges) :
                      same(m, k) /\ \A n \in (m + 1)..Len(edges) : ~ same(n, k)
    IN [k \in 1..Len(firsts) |-> edges[last(firsts[k])]]

CourseSimilarityInit ==
    /\ pc = "course_similarity"
    /\ cfg = [NUM_COURSES |-> 1]
    /\ now = Date(Year0, 1, 1) /\ terms = << >> /\ NoHistory
    /\ courses \in SimilarityCatalogues
    /\ prerequisites = << >> /\ cidx = 1 /\ NoEntities
    /\ work = [similarity_content |-> << >>, similarity_difficulty |-> << >>,
               content_values |-> << >>, difficulty_values |-> << >>]

\* One iteration of the second `for course in courses`.
CourseSimilarityStep ==
    /\ pc = "course_similarity"
    /\ cidx <= Len(courses)
    /\ \E content \in content_candidates(courses, courses[cidx]),
          difficulty \in difficulty_candidates(courses, courses[cidx]) :
          work' = [work EXCEPT !.similarity_content = @ \o content,
                               !.similarity_difficulty = @ \o difficulty]
    /\ cidx' = cidx + 1
    /\ UNCHANGED <<pc, cfg, now, terms, histVars, courses, prerequisites, entityVars>>

\* The de-duplication and the return.
CourseSimilarityReturn ==
    /\ pc = "course_similarity"
    /\ cidx > Len(courses)
    /\ work' = [work EXCEPT !.content_values = dict_values(work.similarity_content),
                            !.difficulty_values = dict_values(work.similarity_difficulty)]
    /\ pc' = "course_similarity_done"
    /\ UNCHANGED <<cfg, now, terms, histVars, courses, prerequisites, cidx, entityVars>>

CourseSimilarityNext == CourseSimilarityStep \/ CourseSimilarityReturn

SpecCourseSimilarity == CourseSimilarityInit /\ [][CourseSimilarityNext]_vars

\* TRUE iff the edge is the last candidate generated for its pair
IsLastCandidate(edge, candidates) ==
    \E k \in 1..Len(candidates) :
        /\ candidates[k] = edge
        /\ \A m \in (k + 1)..Len(candidates) :
              ~ (candidates[m].source = edge.source /\ candidates[m].target = edge.target)

PairsOnce(edges) ==
    \A a, b \in 1..Len(edges) :
        a # b => ~ (edges[a].source = edges[b].source /\ edges[a].target = edges[b].target)

\* C26: in both lists generate_course_similarity returns every ordered
\* (source, target) pair occurs at most once and carries the payload of the
\* last candidate generated for it, no edge joins a course to itself, and a
\* SIMILAR_DIFFICULTY edge joins courses whose avgDifficulty differ by at
\* most 1.
CourseSimilarityDeduplicated ==
    pc = "course_similarity_done" =>
       /\ PairsOnce(work.content_values) /\ PairsOnce(work.difficulty_values)
       /\ \A e \in Range(work.content_values) :
             IsLastCandidate(e, work.similarity_content) /\ e.source # e.target
       /\ \A e \in Range(work.difficulty_values) :
             /\ IsLastCandidate(e, work.similarity_difficulty)
             /\ e.source # e.target
             /\ Abs(CourseById(courses, e.source).avgDifficulty
                    - CourseById(courses, e.target).avgDifficulty) <= 1

\* a returned content list that is shorter than the candidate list, where a
\* pair had candidates of different scores, next to a difficulty edge
CourseSimilarityDeduplicatedWitness ==
    /\ pc = "course_similarity_done"
    /\ Len(work.content_values) < Len(work.similarity_content)
    /\ \E a, b \in 1..Len(work.similarity_content) :
          /\ a < b
          /\ work.similarity_content[a].source = work.similarity_content[b].source
          /\ work.similarity_content[a].target = work.similarity_content[b].target
          /\ work.similarity_content[a].similarity # work.similarity_content[b].similarity
    /\ work.difficulty_values # << >>

(***************************************************************************)
(* The fallback of the prerequisite filter.                                *)
(***************************************************************************)
\* the prerequisite filter of a term of the given season, over the current
\* taken_courses
filtered_courses(term_type) ==
    SelectSeq(potential_courses(courses, term_type, taken_courses),
              LAMBDA c : \A p \in Range(prereq_graph(prerequisites, c.id)) : p \in taken_courses)

\* C27: whenever the prerequisite filter leaves no course for a term, the
\* fallback pool (the candidates without prerequisites) is empty too, the
\* student gets no course in that term and the walk goes on to the next; no
\* course is selected unless all its prerequisites were in taken_courses.
FallbackVacuous ==
    /\ \A term_type \in { "Fall", "Spring", "Summer" } :
          filtered_courses(term_type) = << >> =>
             fallback_courses(potential_courses(courses, term_type, taken_courses),
                              prerequisites) = << >>
    /\ last_term # Idle =>
          LET before == taken_courses \ Range(last_term.selected) IN
          /\ \A id \in last_term.valid \cup Range(last_term.selected) :
                Range(prereq_graph(prerequisites, id)) \subseteq before
          /\ last_term.valid = {} => last_term.selected = << >>

\* a term in which a course was on offer, none passed the filter and none
\* was taken, followed by a term of the same student
FallbackVacuousWitness ==
    /\ pc = "history"
    /\ last_term # Idle
    /\ last_term.valid = {} /\ last_term.selected = << >>
    /\ \E i \in 1..Len(courses) :
          /\ last_term.term.type \in courses[i].termAvailability
          /\ courses[i].id \notin taken_courses
    /\ tpos < Len(student_terms)

GradeDraws == { g \in GRADE_DISTRIBUTION : g \in { "A", "F", "W" } }

GradedHistInit ==
    /\ pc = "history"
    /\ cfg = [HISTORY_YEARS |-> 0, TERMS_TO_GENERATE |-> 3, NUM_STUDENTS |-> 1,
              MAX_PREREQS_PER_COURSE |-> MAX_PREREQS_PER_COURSE]
    /\ now = Date(Year0, 11, 4)
    /\ terms = generate_terms(now.y, cfg.HISTORY_YEARS, cfg.TERMS_TO_GENERATE)
    /\ courses \in HistCourseLists
    /\ prerequisites \in PrerequisiteLists(courses, 1, cfg.MAX_PREREQS_PER_COURSE,
                                           EdgePayloads)
    /\ student = Idle /\ sidx = 0 /\ student_terms = << >> /\ tpos = 0
    /\ taken_courses = {} /\ completed_courses = << >> /\ enrolled_courses = << >>
    /\ last_term = Idle
    /\ cidx = 0 /\ work = Idle /\ NoEntities

\* one iteration of `for term_idx, term in enumerate(student_terms):`, with
\* the grade of every COMPLETED record
GradedHistTerm ==
    /\ pc = "history"
    /\ tpos < Len(student_terms)
    /\ LET term == student_terms[tpos + 1]
           valid == valid_courses(courses, prerequisites, term.type, taken_courses)
       IN \E num_courses \in 1..student.preferredCourseLoad :
          \E term_courses \in sample(valid, Min(num_courses, Len(valid))) :
             LET n == Len(term_courses) IN
             /\ taken_courses' = taken_courses \cup { term_courses[i].id : i \in 1..n }
             /\ IF IsCurrentTerm(term, now)
                THEN /\ enrolled_courses' = enrolled_courses \o
                            [i \in 1..n |-> EnrolledRecord(student, term_courses[i])]
                     /\ UNCHANGED completed_courses
                ELSE /\ \E grades \in [1..n -> GradeDraws] :
                           completed_courses' = completed_courses \o
                              [i \in 1..n |->
                                 [studentId |-> student.id, courseId |-> term_courses[i].id,
                                  term |-> term.id, grade |-> grades[i]]]
                     /\ UNCHANGED enrolled_courses
             /\ last_term' = [term |-> term,
                              valid |-> { valid[i].id : i \in 1..Len(valid) },
                              selected |-> [i \in 1..n |-> term_courses[i].id]]
    /\ tpos' = tpos + 1
    /\ UNCHANGED <<pc, cfg, now, terms, student, sidx, student_terms,
                   courses, prerequisites, cidx, work, entityVars>>

GradedHistNext == HistStudent \/ GradedHistTerm \/ HistReturn

SpecGradedHistory == GradedHistInit /\ [][GradedHistNext]_vars

\* the edges with strength and minGrade blanked
WithoutPayload(edges) ==
    [k \in 1..Len(edges) |->
        [source |-> edges[k].source, target |-> edges[k].target,
         strength |-> "Required", minGrade |-> ""]]

\* the course ids of the student's records, whatever their grade
RecordedIds ==
    { completed_courses[k].courseId :
        k \in { n \in 1..Len(completed_courses) :
                  completed_courses[n].studentId = student.id } }
    \cup { enrolled_courses[k].courseId :
             k \in { n \in 1..Len(enrolled_courses) :
                       enrolled_courses[n].studentId = student.id } }

\* C29: the pool a term's courses are drawn from is determined by the course
\* ids recorded before the term, the term's season and the (source, target)
\* of the edges: the grades of the records and the strength and minGrade of
\* the edges play no part, so runs that differ only in them have the same
\* pools, and a prerequisite completed with "F" or "W" unlocks its successors.
EligibilityIgnoresGrades ==
    last_term # Idle =>
       LET before == RecordedIds \ Range(last_term.selected)
           pool == valid_courses(courses, WithoutPayload(prerequisites),
                                 last_term.term.type, before)
       IN last_term.valid = { pool[i].id : i \in 1..Len(pool) }

\* a course taken in a term after its prerequisite was completed with "F" or
\* "W", over an edge that is only "Recommended"
EligibilityIgnoresGradesWitness ==
    /\ last_term # Idle
    /\ \E e \in Range(prerequisites) :
          /\ e.strength = "Recommended"
          /\ e.target \in Range(last_term.selected)
          /\ \E k \in 1..Len(completed_courses) :
                /\ completed_courses[k].courseId = e.source
                /\ completed_courses[k].grade \in { "F", "W" }
    /\ \E e \in Range(prerequisites) :
          /\ e.strength = "Required"
          /\ e.target \in Range(last_term.selected)
          /\ \E k \in 1..Len(completed_courses) :
                /\ completed_courses[k].courseId = e.source
                /\ completed_courses[k].grade = "F"

(***************************************************************************)
(* The web backend: POST /api/analyze (backend/app.py).  The module-level  *)
(* `coach` is an OllamaAIStudyCoach; the database holds the generated      *)
(* students with the grades of their COMPLETED relationships.  `students`  *)
(* is the database content, cfg says whether the database answers, and    *)
(* work holds the last request with the response the handler returned.     *)
(***************************************************************************)
\* the methods class OllamaAIStudyCoach defines
OllamaAIStudyCoach ==
    { "__init__", "test_ollama_connection", "get_random_student",
      "find_similar_students", "calculate_gpa", "analyze_performance",
      "generate_ollama_insights", "get_fallback_advice",
      "create_recommendations", "get_recommendations", "close" }

\* the object app.py binds to the name coach
coach == OllamaAIStudyCoach

\* the grade lists a student's COMPLETED relationships give: none, one, three
AnalyzeGradeLists == { << >>, <<"B">>, <<"A", "B", "C">> }

AnalyzeStyles == { "Visual", "Auditory" }

\* the databases: two Student nodes S1, S2 with a learning style and grades each
AnalyzeDatabases ==
    { << [id |-> "S1", learningStyle |-> s1, preferredPace |-> "Standard", grades |-> g1],
         [id |-> "S2", learningStyle |-> s2, preferredPace |-> "Standard", grades |-> g2] >> :
         <<s1, s2, g1, g2>> \in AnalyzeStyles \X AnalyzeStyles
                                 \X AnalyzeGradeLists \X AnalyzeGradeLists }

\* data.get('student_id') of a body without that key
NoStudentId == "None"

\* the request bodies: is_dict is FALSE when request.get_json() gives no dict
\* (a body of null); student_id is what data.get('student_id') returns
AnalyzeRequests ==
    { [is_dict |-> FALSE, student_id |-> NoStudentId] }
    \cup { [is_dict |-> TRUE, student_id |-> id] :
              id \in { NoStudentId, "", "S1", "S2", "S9" } }

\* `not student_id`: None and the empty string are falsy
is_falsy(student_id) == student_id \in { NoStudentId, "" }

\* the rows of MATCH (s:Student {id: $student_id})-[c:COMPLETED]->(course)
\* with collect(): one row per matching student that has a COMPLETED relationship
student_rows(db, student_id) ==
    SelectSeq(db, LAMBDA s : s.id = student_id /\ Len(s.grades) >= 1)

\* find_similar_students: the students of the style with 3 or more COMPLETED
\* relationships, LIMIT 10
find_similar_students(db, target_learning_style) ==
    LET rows == SelectSeq(db, LAMBDA s : /\ s.learningStyle = target_learning_style
                                         /\ Len(s.grades) >= 3)
    IN  SubSeq(rows, 1, Min(10, Len(rows)))

error_response(status, message) ==
    [status |-> status, keys |-> { "error" }, success |-> FALSE, error |-> message]

success_response ==
    [status |-> 200,
     keys |-> { "student", "analysis", "recommendations", "ai_insight", "success" },
     success |-> TRUE, error |-> ""]

\* looking a method up on an object that has no attribute of that name raises
\* AttributeError
has_attribute(obj, name) == name \in obj

\* analyze_student: the response for one request; every exception raised inside
\* the try block is answered by the except clause with status 500
analyze_student(db, database_up, request) ==
    IF ~request.is_dict
    THEN error_response(500, "'NoneType' object has no attribute 'get'")
    ELSE IF is_falsy(request.student_id)
    THEN error_response(400, "student_id is required")
    ELSE IF ~database_up
    THEN error_response(500, "ServiceUnavailable")
    ELSE LET rows == student_rows(db, request.student_id)
         IN  IF rows = << >>
             THEN error_response(404, "Student not found")
             ELSE IF find_similar_students(db, rows[1].learningStyle) = << >>
             THEN error_response(404, "No similar students found")
             ELSE IF ~has_attribute(coach, "analyze_performance")
             THEN error_response(500, "no attribute 'analyze_performance'")
             ELSE IF ~has_attribute(coach, "generate_ai_insights")
             THEN error_response(500, "no attribute 'generate_ai_insights'")
             ELSE IF ~has_attribute(coach, "create_recommendations")
             THEN error_response(500, "no attribute 'create_recommendations'")
             ELSE success_response

AnalyzeInit ==
    /\ pc = "serving"
    /\ cfg \in [database_up : BOOLEAN]
    /\ now = Date(Year0, 1, 1) /\ terms = << >> /\ NoHistory
    /\ courses = << >> /\ prerequisites = << >> /\ cidx = 0 /\ faculty = << >>
    /\ degrees = << >> /\ requirement_groups = << >>
    /\ students \in AnalyzeDatabases
    /\ work = Idle

\* one POST /api/analyze request, answered
AnalyzeStudent ==
    /\ pc = "serving"
    /\ \E request \in AnalyzeRequests :
          work' = [request |-> request,
                   response |-> analyze_student(students, cfg.database_up, request)]
    /\ UNCHANGED <<pc, cfg, now, terms, histVars, courses, prerequisites, cidx, entityVars>>

AnalyzeNext == AnalyzeStudent

SpecAnalyze == AnalyzeInit /\ [][AnalyzeNext]_vars

\* the Student node with the requested id, if there is one
StudentNodes(student_id) == { i \in DOMAIN students : students[i].id = student_id }

\* the request names an existing student who has at least one similar student
HasSimilarStudents(request) ==
    /\ request.is_dict
    /\ \E i \in StudentNodes(request.student_id) :
          find_similar_students(students, students[i].learningStyle) # << >>

\* C30: POST /api/analyze for an existing student with at least one similar
\* student answers 200 with success = true and the keys student, analysis,
\* recommendations and ai_insight; 400 is answered only when student_id is
\* missing, 404 only when the student or the similar students are not found, and
\* 500 only when the database or the analysis step raises.
AnalyzeResponses ==
    work # Idle =>
        LET request == work.request
            response == work.response
        IN  /\ (cfg.database_up /\ HasSimilarStudents(request)) =>
                  /\ response.status = 200
                  /\ response.success
                  /\ { "student", "analysis", "recommendations", "ai_insight" }
                        \subseteq response.keys
            /\ response.status = 400 =>
                  (request.is_dict /\ is_falsy(request.student_id))
            /\ response.status = 404 =>
                  \/ student_rows(students, request.student_id) = << >>
                  \/ ~HasSimilarStudents(request)
            /\ response.status = 500 =>
                  \/ ~cfg.database_up
                  \/ ~has_attribute(coach, "analyze_performance")

====
